---- MODULE Spec2Model ----
(***************************************************************************)
(* Model of custom_https_server.py: the request handler (CustomHandler:    *)
(* check_auth, send_head, do_GET, do_POST, _parse_multipart_stream) over   *)
(* a small filesystem.                                                     *)
(*                                                                         *)
(* Bytes are one-element strings.  A file path is the sequence of its      *)
(* components from "/", so <<"srv","a.bin">> is /srv/a.bin; the server     *)
(* runs with /srv as its working directory (os.chdir(serve_path)).         *)
(***************************************************************************)
EXTENDS Integers, Sequences, FiniteSets, TLC

\* ---------------------------------------------------------------------
\* Bounds of the model
\* ---------------------------------------------------------------------
\* largest byte offset enumerated in Range headers (besides 100 and 200)
MaxRangePos == 6

\* ---------------------------------------------------------------------
\* Generic sequence helpers
\* ---------------------------------------------------------------------
Last(s) == s[Len(s)]

\* s[i..] in 0-based python slicing: s[n:]
Drop(s, n) == IF n >= Len(s) THEN <<>> ELSE SubSeq(s, n + 1, Len(s))

\* s[:n]
Take(s, n) == IF n <= 0 THEN <<>> ELSE SubSeq(s, 1, IF n > Len(s) THEN Len(s) ELSE n)

Min(a, b) == IF a < b THEN a ELSE b

\* ---------------------------------------------------------------------
\* Filesystem
\* ---------------------------------------------------------------------
\* the serving root: os.chdir(serve_path) makes it the working directory
ServeRoot == <<"srv">>

\* directories of the model; none is ever created or removed by the handler
Dirs == { <<>>, <<"srv">>, <<"srv", "sub">>, <<"srv", "locked">> }

\* directories on which os.listdir raises PermissionError
LockedDirs == { <<"srv", "locked">> }

HelloWorld == <<"h", "e", "l", "l", "o", " ", "w", "o", "r", "l", "d", "!">>

\* the files present when the server starts
InitFS ==
    (<<"srv", "a.txt">> :> HelloWorld) @@
    (<<"srv", "a.bin">> :> <<"h", "e", "l", "l", "o">>) @@
    (<<"srv", "e.bin">> :> <<>>) @@
    (<<"srv", "n.txt">> :> <<"A", "\r", "\n", "xFF">>) @@
    (<<"srv", "x.dat">> :> <<"X">>) @@
    (<<"srv", "ro.dat">> :> <<"R">>) @@
    (<<"srv", "sub", "x.dat">> :> <<"N">>) @@
    (<<"secret">> :> <<"S">>)

\* files os.remove raises PermissionError for: they belong to another user
\* and the serving root has the sticky bit
Undeletable == { <<"srv", "ro.dat">> }

\* os.path.isdir / os.path.isfile on a path with a trailing-slash flag:
\* "a.bin/" is neither a file nor a directory
IsDir(f, p) == p \in Dirs
IsFile(f, p, slash) == p \in DOMAIN f /\ ~slash

\* the names of the direct children of directory d: os.listdir(d)
ListDir(f, d) ==
    { Last(p) : p \in { q \in (DOMAIN f) \cup Dirs : Len(q) = Len(d) + 1 /\ Take(q, Len(d)) = d } }

\* os.path.splitext(name.lower())[1] for the names of the model
SplitExt(name) ==
    CASE name \in {"a.txt", "n.txt"} -> ".txt"
      [] name = "a.bin" -> ".bin"
      [] name = "e.bin" -> ".bin"
      [] name \in {"x.dat", "y.dat", "ro.dat"} -> ".dat"
      [] name = "u.service" -> ".service"
      [] OTHER -> ""

TEXT_EXTENSIONS ==
    { ".cfg", ".conf", ".yaml", ".yml", ".ks", ".ini", ".txt", ".env",
      ".properties", ".md", ".log", ".sh", ".py" }

is_text_config(p) == SplitExt(Last(p)) \in TEXT_EXTENSIONS

guess_type(p) ==
    LET name == Last(p)
        ext == SplitExt(name)
    IN  IF name \in {"README", "LICENSE", "Makefile"} THEN "text/plain; charset=utf-8"
        ELSE IF ext \in { ".sh", ".py", ".log", ".md", ".conf", ".ini", ".env",
                           ".txt", ".service", ".plist" }
             THEN "text/plain; charset=utf-8"
        ELSE "application/octet-stream"

\* open(path, "r", encoding="utf-8", errors="replace").read().encode("utf-8"):
\* universal newlines turn \r\n and \r into \n, an invalid byte becomes
\* U+FFFD, which encodes as EF BF BD
RECURSIVE ReadTextEncoded(_)
ReadTextEncoded(c) ==
    IF c = <<>> THEN <<>>
    ELSE IF c[1] = "\r" /\ Len(c) >= 2 /\ c[2] = "\n" THEN <<"\n">> \o ReadTextEncoded(Drop(c, 2))
    ELSE IF c[1] = "\r" THEN <<"\n">> \o ReadTextEncoded(Drop(c, 1))
    ELSE IF c[1] = "xFF" THEN <<"xEF", "xBF", "xBD">> \o ReadTextEncoded(Drop(c, 1))
    ELSE <<c[1]>> \o ReadTextEncoded(Drop(c, 1))

\* ---------------------------------------------------------------------
\* Requests
\* ---------------------------------------------------------------------
\* An Authorization header: prefix is the text up to and including the
\* first space, kind says whether the word after it is base64 of utf-8
\* text ("b64"), has bad padding ("badpad") or decodes to bytes that are
\* not utf-8 ("badutf8"); text is the decoded text, "admin" and "pw"
\* standing for whole words and ":" for the colon.
NoAuthHeader == [present |-> FALSE, prefix |-> "", kind |-> "b64", text |-> <<>>]

BasicHeader(t) == [present |-> TRUE, prefix |-> "Basic ", kind |-> "b64", text |-> t]

GoodAuthHeader == BasicHeader(<<"admin", ":", "pw">>)

AuthHeaders ==
    { NoAuthHeader,
      GoodAuthHeader,
      [present |-> TRUE, prefix |-> "Bearer ", kind |-> "b64", text |-> <<"admin", ":", "pw">>],
      [present |-> TRUE, prefix |-> "Basic", kind |-> "b64", text |-> <<>>],
      [present |-> TRUE, prefix |-> "basic ", kind |-> "b64", text |-> <<"admin", ":", "pw">>],
      [present |-> TRUE, prefix |-> "Basic ", kind |-> "badpad", text |-> <<>>],
      [present |-> TRUE, prefix |-> "Basic ", kind |-> "badutf8", text |-> <<>>],
      BasicHeader(<<>>),
      BasicHeader(<<"admin", "pw">>),
      BasicHeader(<<"admin", ":", "x">>),
      BasicHeader(<<"x", ":", "pw">>),
      BasicHeader(<<"admin", ":", "pw", ":", "x">>) }

\* the configured credentials
AUTH_USERNAME == <<"admin">>
AUTH_PASSWORD == <<"pw">>

\* A Range header is modelled by the fields that
\* range_header.replace("bytes=", "").split("-") yields: <<>> is the empty
\* string, <<n>> the decimal number n, <<-1>> text int() rejects.  The
\* header is absent when there is no field at all.
FieldEmpty == <<>>
FieldNum(n) == <<n>>
FieldJunk == <<-1>>
IsNum(fld) == Len(fld) = 1 /\ fld[1] >= 0

NoRange == <<>>

RangePositions == (0 .. MaxRangePos) \cup {100, 200}

RangeFields == {FieldEmpty, FieldJunk} \cup { FieldNum(n) : n \in RangePositions }

RangeHeaders ==
    { NoRange, <<FieldJunk>>, <<FieldNum(0), FieldJunk, FieldNum(4)>> }
    \cup { <<a, b>> : a \in RangeFields, b \in RangeFields }

\* a request path after translate_path: the filesystem path and whether
\* the URL ended with "/"
Path(p, slash) == [fs |-> p, slash |-> slash]

ReqPaths ==
    { Path(<<"srv">>, TRUE), Path(<<"srv", "sub">>, FALSE), Path(<<"srv", "sub">>, TRUE),
      Path(<<"srv", "locked">>, TRUE),
      Path(<<"srv", "a.txt">>, FALSE), Path(<<"srv", "a.bin">>, FALSE),
      Path(<<"srv", "a.bin">>, TRUE), Path(<<"srv", "e.bin">>, FALSE),
      Path(<<"srv", "n.txt">>, FALSE), Path(<<"srv", "x.dat">>, FALSE),
      Path(<<"srv", "y.dat">>, FALSE) }

\* position of the first x in s, 0 when there is none
FindElem(s, x) ==
    IF \E i \in 1 .. Len(s) : s[i] = x
    THEN CHOOSE i \in 1 .. Len(s) : s[i] = x /\ \A j \in 1 .. (i - 1) : s[j] # x
    ELSE 0

\* CustomHandler.check_auth: "ok" (True), "deny" (False) or "raise" (an
\* exception leaves the method)
check_auth(h) ==
    IF ~h.present \/ h.prefix # "Basic " THEN "deny"
    ELSE IF h.kind # "b64" THEN "raise"
    ELSE LET i == FindElem(h.text, ":")
         IN  IF i = 0 THEN "raise"
             ELSE IF Take(h.text, i - 1) = AUTH_USERNAME /\ Drop(h.text, i) = AUTH_PASSWORD
                  THEN "ok" ELSE "deny"

\* ---------------------------------------------------------------------
\* Responses
\* ---------------------------------------------------------------------
\* status: the status lines sent, in order; clen, crange, loc, listing:
\* empty when the header (or the listing) was not sent; body: the bytes
\* written; exc: the handler ended with an uncaught exception; named: the
\* file name the message of an error names
NoResp ==
    [status |-> <<>>, www |-> "", ctype |-> "", clen |-> <<>>, crange |-> <<>>,
     aranges |-> FALSE, loc |-> <<>>, body |-> <<>>, listing |-> <<>>, msg |-> "", exc |-> FALSE,
     named |-> <<>>]

\* literal bodies, each standing for the whole text
AuthBody == "Authentication required"
ErrorPage == "<error page>"
ForbiddenPage == "<403 Forbidden page>"
LiteralBodies == {AuthBody, ErrorPage, ForbiddenPage}

send_response(r, code) == [r EXCEPT !.status = Append(@, code)]

\* BaseHTTPRequestHandler.send_error: status line and an HTML error page
\* (no page on HEAD)
send_error(r, code, method) ==
    [r EXCEPT !.status = Append(@, code),
              !.body = IF method = "HEAD" THEN @ ELSE Append(@, ErrorPage)]

Raise(r) == [r EXCEPT !.exc = TRUE]

\* CustomHandler.do_AUTHHEAD followed by the body the callers write
do_AUTHHEAD(r) ==
    [send_response(r, 401) EXCEPT !.www = "Basic realm=\"File Server\"", !.ctype = "text/html"]

AuthRequired(r) == [do_AUTHHEAD(r) EXCEPT !.body = Append(@, AuthBody)]

\* ---------------------------------------------------------------------
\* GET and HEAD
\* ---------------------------------------------------------------------
\* f.seek(start); f.read(n) on a binary file: n = -1 reads to the end,
\* n < -1 raises ValueError (reported as <<"raise">>)
FileRead(content, start, n) ==
    IF n < -1 THEN <<"raise">>
    ELSE IF n = -1 THEN Drop(content, start)
    ELSE Take(Drop(content, start), n)

\* SimpleHTTPRequestHandler.send_head on a directory (reached through
\* super().send_head()): redirect without the slash, else the stock listing
base_send_head(f, rq, r) ==
    IF ~rq.path.slash
    THEN [resp |-> [send_response(r, 301) EXCEPT !.loc = <<Path(rq.path.fs, TRUE)>>],
          file |-> <<>>, page |-> <<>>]
    ELSE IF rq.path.fs \in LockedDirs
    THEN [resp |-> send_error(r, 404, rq.method), file |-> <<>>, page |-> <<>>]
    ELSE [resp |-> [send_response(r, 200) EXCEPT !.ctype = "text/html; charset=utf-8"],
          file |-> <<>>, page |-> <<ListDir(f, rq.path.fs)>>]

\* send_head, lines 351-368: start and end are the parsed integers
RangeReply(r, content, start, end, ctype, method) ==
    LET size == Len(content)
        n == end - start + 1
        hdr == [send_response(r, 206) EXCEPT
                   !.ctype = ctype, !.aranges = TRUE,
                   !.crange = <<(<<start, end, size>>)>>,
                   !.clen = <<n>>]
    IN  IF start >= size
        THEN send_error(r, 416, method)
        ELSE IF FileRead(content, start, n) = <<"raise">>
        THEN Raise(hdr)
        ELSE [hdr EXCEPT !.body = @ \o FileRead(content, start, n)]

\* CustomHandler.send_head: the response so far, and the open file (file)
\* or stock listing (page) it hands back to the caller
send_head(f, rq, r) ==
    LET p == rq.path.fs
        none == [resp |-> r, file |-> <<>>, page |-> <<>>]
    IN  IF IsDir(f, p) THEN base_send_head(f, rq, r)
        ELSE IF ~IsFile(f, p, rq.path.slash)
        THEN [none EXCEPT !.resp = send_error(r, 404, rq.method)]
        ELSE LET content == f[p]
                 size == Len(content)
                 rh == rq.range
             IN  IF rh = NoRange
                 THEN [none EXCEPT
                          !.resp = [send_response(r, 200) EXCEPT
                                       !.ctype = guess_type(p), !.clen = <<size>>,
                                       !.aranges = TRUE],
                          !.file = <<content>>]
                 ELSE IF Len(rh) # 2 THEN [none EXCEPT !.resp = Raise(r)]
                 ELSE IF ~IsNum(rh[1]) THEN [none EXCEPT !.resp = Raise(r)]
                 ELSE IF rh[2] # FieldEmpty /\ ~IsNum(rh[2]) THEN [none EXCEPT !.resp = Raise(r)]
                 ELSE [none EXCEPT
                          !.resp = RangeReply(r, content, rh[1][1],
                                              IF rh[2] = FieldEmpty THEN size - 1 ELSE rh[2][1],
                                              guess_type(p), rq.method)]

\* CustomHandler.render_page up to the listing: html says whether a page
\* is returned, listing holds the entries it shows
render_page(f, rq, r) ==
    LET p == rq.path.fs
    IN  IF ~IsDir(f, p) THEN [html |-> FALSE, listing |-> <<>>, resp |-> r]
        ELSE IF p \in LockedDirs
        THEN [html |-> FALSE, listing |-> <<>>,
              resp |-> [send_response(r, 403) EXCEPT
                           !.ctype = "text/html; charset=utf-8",
                           !.body = Append(@, ForbiddenPage)]]
        ELSE [html |-> TRUE, listing |-> <<ListDir(f, p)>>, resp |-> r]

\* SimpleHTTPRequestHandler.do_GET: send_head, then copy what it returned
base_do_GET(f, rq, r) ==
    LET sh == send_head(f, rq, r)
    IN  IF sh.file # <<>> THEN [sh.resp EXCEPT !.body = @ \o sh.file[1]]
        ELSE IF sh.page # <<>> THEN [sh.resp EXCEPT !.listing = sh.page]
        ELSE sh.resp

\* SimpleHTTPRequestHandler.do_HEAD, which CustomHandler inherits:
\* send_head, then close what it returned
do_HEAD(f, rq) == send_head(f, rq, NoResp).resp

\* the raw text view of do_GET, lines 762-774
TextView(f, rq, r) ==
    [send_response(r, 200) EXCEPT
        !.ctype = "text/plain; charset=utf-8",
        !.body = @ \o ReadTextEncoded(f[rq.path.fs])]

\* CustomHandler.do_GET
do_GET(f, rq) ==
    LET a == check_auth(rq.auth)
        p == rq.path.fs
    IN  IF a = "raise" THEN Raise(NoResp)
        ELSE IF a = "deny" THEN AuthRequired(NoResp)
        ELSE IF IsDir(f, p) /\ ~rq.path.slash
        THEN [send_response(NoResp, 301) EXCEPT !.loc = <<Path(p, TRUE)>>]
        ELSE LET rp == render_page(f, rq, NoResp)
             IN  IF rp.html
                 THEN [send_response(rp.resp, 200) EXCEPT
                          !.ctype = "text/html; charset=utf-8", !.listing = rp.listing]
                 ELSE IF IsFile(f, p, rq.path.slash) /\ is_text_config(p)
                 THEN TextView(f, rq, rp.resp)
                 ELSE base_do_GET(f, rq, rp.resp)

\* ---------------------------------------------------------------------
\* Paths named by multipart fields
\* ---------------------------------------------------------------------
\* A filename or delete_files value is a sequence of tokens: "/" is the
\* separator and every other token is a whole path component ("x.dat",
\* "..", "."); the names of the model never hold two components without a
\* "/" between them.

\* first position (0-based) at which pat occurs in s, -1 when it does not:
\* bytes.find / str.find
Find(s, pat) ==
    LET m == { i \in 0 .. (Len(s) - Len(pat)) : SubSeq(s, i + 1, i + Len(pat)) = pat }
    IN  IF m = {} THEN -1 ELSE CHOOSE i \in m : \A j \in m : i <= j

StartsWith(s, pat) == Len(s) >= Len(pat) /\ SubSeq(s, 1, Len(pat)) = pat

\* the tokens after the last "/": os.path.basename
RECURSIVE basename(_)
basename(name) ==
    IF FindElem(name, "/") = 0 THEN name ELSE basename(Drop(name, FindElem(name, "/")))

\* unicodedata.normalize("NFC", name), token by token: the decomposed
\* spelling of a name becomes its composed spelling
NFC(t) == IF t = "e+acute.dat" THEN "eacute.dat" ELSE t

normalize_filename(name) == [i \in 1 .. Len(name) |-> NFC(name[i])]

\* the components of a name: the runs of tokens between "/"; a name
\* that starts with a blank is a component of its own
RECURSIVE Components(_)
Components(name) ==
    LET i == FindElem(name, "/")
        comp(run) == IF run = <<>> THEN "" ELSE IF Len(run) = 1 THEN run[1]
                     ELSE IF run = <<" ", "x.dat">> THEN " x.dat" ELSE "<other>"
    IN  IF i = 0 THEN <<comp(name)>>
        ELSE <<comp(Take(name, i - 1))>> \o Components(Drop(name, i))

Parent(p) == IF p = <<>> THEN <<>> ELSE Take(p, Len(p) - 1)

\* the kernel's walk from directory cur along comps; [ok |-> FALSE] when a
\* component is looked up in something that is not a directory
RECURSIVE Walk(_, _)
Walk(cur, comps) ==
    IF comps = <<>> THEN [ok |-> TRUE, path |-> cur]
    ELSE IF cur \notin Dirs THEN [ok |-> FALSE, path |-> cur]
    ELSE IF Head(comps) \in {"", "."} THEN Walk(cur, Tail(comps))
    ELSE IF Head(comps) = ".." THEN Walk(Parent(cur), Tail(comps))
    ELSE Walk(Append(cur, Head(comps)), Tail(comps))

\* os.path.join(target_dir, name) as the kernel resolves it: an absolute
\* name replaces target_dir
JoinPath(target, name) ==
    IF name # <<>> /\ name[1] = "/" THEN Walk(<<>>, Components(name))
    ELSE Walk(target, Components(name))

\* ---------------------------------------------------------------------
\* Multipart bodies
\* ---------------------------------------------------------------------
CR == "\r"
LF == "\n"
CRLF == <<CR, LF>>

\* the boundary parameter the model's clients use
BoundaryB == <<"b">>

\* boundary_bytes = f"--{boundary}".encode()
boundary_bytes(b) == <<"-", "-">> \o b

\* a Content-Disposition line; "file" followed by "name=" spells filename=,
\* so a search for name= also finds it inside filename=
CDName(field) == <<"Content-Disposition:", " ", "form-data", ";", " ", "name=", "\"", field, "\"">>

CDFile(field, fn) == CDName(field) \o <<";", " ", "file", "name=", "\"">> \o fn \o <<"\"">>

\* the same parameters with filename= before name=
CDFileFirst(field, fn) ==
    <<"Content-Disposition:", " ", "form-data", ";", " ", "file", "name=", "\"">> \o fn
    \o <<"\"", ";", " ", "name=", "\"", field, "\"">>

\* one part of a body: its header line, then its content, then the
\* terminator of the part
Part(hdr, content) == CRLF \o hdr \o CRLF \o CRLF \o content \o CRLF \o boundary_bytes(BoundaryB)

FilePart(fn, content) == Part(CDFile("file", fn), content)
DeletePart(value) == Part(CDName("delete_files"), value)

RECURSIVE Concat(_)
Concat(ss) == IF ss = <<>> THEN <<>> ELSE Head(ss) \o Concat(Tail(ss))

\* a well-formed body: preamble, opening boundary, the parts, "--" CRLF
Body(preamble, parts) ==
    preamble \o boundary_bytes(BoundaryB) \o Concat(parts) \o <<"-", "-">> \o CRLF

\* file contents uploaded by the model's clients; several hold a proper
\* prefix of the terminator CRLF--b
UploadContents ==
    { <<"A", "B", "C">>,
      <<>>,
      <<"A", CR, LF, "-", "-", "B", "C", "D">>,
      <<CR, LF, "-", CR, LF, "-", "-">>,
      <<"A", "B", "C", "D", "E", "F", "G", "H", CR>> }

\* filenames sent in file parts
UploadNames ==
    { <<"x.dat">>, <<"..", "/", "y.dat">>, <<"/", "secret">>, <<"sub", "/", "x.dat">>,
      <<"..">>, <<"y.dat", "/">>, <<"sub">>, <<"e+acute.dat">> }

\* values sent in delete_files parts
DeleteValues ==
    { <<"x.dat">>, <<" ", "x.dat", CR, LF>>, <<"..", "/", "secret">>, <<"/", "secret">>,
      <<"sub", "/", "x.dat">>, <<"sub">>, <<"y.dat">> }

\* how long the long preamble, delete_files value and unrecognized part
\* of the model are
LongLen == 60

LongRun == [i \in 1 .. LongLen |-> "P"]

\* the body of an unrecognized part that spells a header block of a file
\* part and its content
HeaderLike == CDFile("file", <<"evil.dat">>) \o CRLF \o CRLF \o <<"E">>

Bodies ==
    { Body(<<>>, <<FilePart(<<"x.dat">>, c)>>) : c \in UploadContents }
    \cup { Body(<<>>, <<FilePart(n, <<"A">>)>>) : n \in UploadNames }
    \cup { Body(<<>>, <<DeletePart(v)>>) : v \in DeleteValues }
    \cup { Body(<<"P", CR, LF>>, <<FilePart(<<"x.dat">>, <<"A", "B", "C">>), DeletePart(<<"x.dat">>)>>),
           Body(<<>>, <<DeletePart(<<"x.dat">>), FilePart(<<"x.dat">>, <<"A", "B", "C">>)>>),
           Body(<<>>, <<FilePart(<<"x.dat">>, <<"A", CR, LF, "-">>), FilePart(<<"y.dat">>, <<"B">>)>>),
           Body(<<>>, <<Part(CDName("note"), <<"N">>), FilePart(<<"y.dat">>, <<"B">>)>>),
           Body(<<>>, <<Part(CDFile("file", <<>>), <<"N">>), DeletePart(<<"y.dat">>)>>),
           Body(<<>>, <<Part(CDFileFirst("file", <<"y.dat">>), <<"B">>)>>),
           Body(<<>>, <<DeletePart(<<"y.dat">>), FilePart(<<"x.dat">>, <<"A", "B", "C">>),
                        DeletePart(<<" ", "x.dat", CR, LF>>)>>),
           Body(LongRun, <<FilePart(<<"x.dat">>, <<"A", "B", "C">>)>>),
           Body(<<>>, <<DeletePart(LongRun)>>),
           Body(<<>>, <<DeletePart(<<"x.dat">>), DeletePart(<<"ro.dat">>), DeletePart(<<"a.bin">>)>>),
           Body(<<>>, <<DeletePart(<<"x.dat">>), FilePart(<<"y.dat">>, <<"B">>),
                        FilePart(<<"sub">>, <<"A">>)>>),
           Body(<<>>, <<FilePart(<<" ", "x.dat">>, <<"A">>), DeletePart(<<" ", "x.dat">>)>>),
           Body(<<>>, <<DeletePart(<<" ", "x.dat">>), FilePart(<<" ", "x.dat">>, <<"A">>)>>),
           Body(<<>>, <<Part(CDName("note"), LongRun), FilePart(<<"y.dat">>, <<"B">>)>>),
           Body(<<>>, <<Part(CDName("note"), HeaderLike), FilePart(<<"y.dat">>, <<"B">>)>>),
           Body(<<>>, <<Part(CDName("note"), <<"-", "-", "b", "-", "-">>), FilePart(<<"y.dat">>, <<"B">>)>>),
           <<"A", "B">>,
           <<>> }

\* ---------------------------------------------------------------------
\* Part headers
\* ---------------------------------------------------------------------
Contains(s, pat) == Find(s, pat) # -1

\* str.split(sep) on the header block
RECURSIVE SplitOn(_, _)
SplitOn(s, sep) ==
    IF Find(s, sep) = -1 THEN <<s>>
    ELSE <<Take(s, Find(s, sep))>> \o SplitOn(Drop(s, Find(s, sep) + Len(sep)), sep)

\* str.split(pat)[1], for s that contains pat
SplitSecond(s, pat) == SplitOn(s, pat)[2]

RECURSIVE LStrip(_, _)
LStrip(s, chars) == IF s # <<>> /\ s[1] \in chars THEN LStrip(Tail(s), chars) ELSE s

RECURSIVE RStrip(_, _)
RStrip(s, chars) ==
    IF s # <<>> /\ s[Len(s)] \in chars THEN RStrip(Take(s, Len(s) - 1), chars) ELSE s

\* str.strip(chars)
Strip(s, chars) == RStrip(LStrip(s, chars), chars)

StripQuotes(s) == Strip(Strip(s, {"\""}), {"'"})

Whitespace == {" ", CR, LF, "\t"}

\* lines 894-901: the filename and field name the Content-Disposition
\* lines of a header block give; <<>> stands for None and for ""
RECURSIVE ParseDisposition(_, _)
ParseDisposition(lines, acc) ==
    IF lines = <<>> THEN acc
    ELSE LET line == Head(lines)
             isCD == line # <<>> /\ line[1] = "Content-Disposition:"
             fn == IF isCD /\ Contains(line, <<"file", "name=">>)
                   THEN StripQuotes(SplitSecond(line, <<"file", "name=">>))
                   ELSE acc.filename
             fld == IF isCD /\ Contains(line, <<"name=">>)
                    THEN StripQuotes(SplitOn(SplitSecond(line, <<"name=">>), <<";">>)[1])
                    ELSE acc.field_name
         IN  ParseDisposition(Tail(lines), [filename |-> fn, field_name |-> fld])

PartHeaders(block) ==
    ParseDisposition(SplitOn(block, CRLF), [filename |-> <<>>, field_name |-> <<>>])

\* ---------------------------------------------------------------------
\* State
\* ---------------------------------------------------------------------
\* BUFFER_SIZE of _parse_multipart_stream (8192 in the source), scaled to
\* the size of the model's bodies
BUFFER_SIZE == 6

\* how many bytes a client may cut from the end of a body, or declare
\* fewer than it sends
MaxCut == 6

\* how many requests one behaviour holds
MaxRequests == 3

VARIABLES
    fs,              \* the files on disk: path -> content
    fs_pre,          \* fs when the request being handled (or last handled) arrived
    mode,            \* server_mode: "read" or "write"
    req,             \* the request being handled (or last handled)
    resp,            \* what has been sent in answer to it
    pc,              \* "idle", or the place of the handler inside a POST
    buffer,          \* _parse_multipart_stream: buffer
    bytes_read,      \* _parse_multipart_stream: bytes_read
    uploaded_files,  \* _parse_multipart_stream: uploaded_files
    delete_files,    \* _parse_multipart_stream: delete_files
    cur,             \* <<path>> of the file open for writing, <<>> when none
    flog,            \* history: one record per file part, in order
    nreq,            \* history: how many requests have arrived
    peer,            \* the locals of the handler thread that is not running
    cert,            \* server.crt and server.key, and the runs of openssl
    redirect,        \* the argument of DualProtocolServer.start
    main,            \* where the main thread is
    hpc,             \* where shutdown_handler is, <<>> when it is not running
    lsn,             \* the two listeners: their thread, server object and socket
    stop_event,      \* stop_event of start(): TRUE when set
    handlers,        \* shutdown_handler is installed for SIGTERM and SIGINT
    exit_status,     \* <<>> while the process runs, <<status>> once it has ended
    nsig,            \* history: how many signals have been delivered
    ensured,         \* history: how many times _ensure_certificate has run
    conns,           \* the connections clients have made: listener, client, progress
    sel,             \* __main__: the inputs and results of select_bind_port / select_bind_ip
    lst              \* render_page: the locals of a directory listing in progress

server_vars == <<cert, redirect, main, hpc, lsn, stop_event, handlers, exit_status, nsig, ensured>>

vars == <<fs, fs_pre, mode, req, resp, pc, buffer, bytes_read,
          uploaded_files, delete_files, cur, flog, nreq, peer, server_vars, conns, sel, lst>>

parser_vars == <<buffer, bytes_read, uploaded_files, delete_files, cur, flog>>

\* what no step of a handler changes: the configuration, the locals of
\* the other handler thread and the state of the server
outside == <<mode, peer, server_vars, conns, sel, lst>>

handler_vars == <<fs, fs_pre, mode, req, resp, pc, parser_vars, nreq, peer>>

\* the listeners of DualProtocolServer
Listeners == {"https", "http"}

\* a listener before its thread exists. thread: "unborn", "born" (started,
\* about to create the server), "bound" (the HTTPS server before its socket
\* is wrapped), "ready" (about to call serve_forever), "serving",
\* "returned" (serve_forever has returned) or "dead" (an exception ended
\* the thread); server: self.https_server / self.http_redirect_server is
\* set; sock: "none", "listening" or "closed"; tls: the socket is wrapped;
\* shutdown_request, is_shut_down: the flag and the event of
\* socketserver.BaseServer
NoListener ==
    [thread |-> "unborn", server |-> FALSE, sock |-> "none", tls |-> FALSE,
     shutdown_request |-> FALSE, is_shut_down |-> FALSE]

\* a file of the certificate directory: missing, loadable by
\* ssl.wrap_socket, or there without being loadable
FileStates == {"absent", "valid", "invalid"}

\* both files as a successful run of openssl leaves them; openssl: the
\* results of the runs of openssl so far
GoodCert == [crt |-> "valid", key |-> "valid", openssl |-> <<>>]

\* ssl.wrap_socket (lines 1144-1149) can load the certificate and the key
CertLoads == cert.crt = "valid" /\ cert.key = "valid"

\* how many connections clients make
MaxConns == 3
Conns == 1..MaxConns

\* a connection no client has made yet. lsn: the listener it is made to;
\* kind: how its client behaves; st: "unborn", "queued" (in the backlog of
\* the listening socket), "accepting" (inside get_request), "handling"
\* (inside finish_request), "done" or "failed"; thread: the thread that
\* works on it, "loop" (the thread of serve_forever) or "own"
NoConn == [lsn |-> "none", kind |-> "none", st |-> "unborn", thread |-> "none"]

\* __main__ before select_bind_port is called
NoSel == [pc |-> "none"]

\* no directory listing is in progress
NoList == [pc |-> "none"]

\* the process before DualProtocolServer is constructed
ServerInit ==
    /\ main = "init"
    /\ hpc = <<>>
    /\ lsn = [l \in Listeners |-> NoListener]
    /\ stop_event = FALSE
    /\ handlers = FALSE
    /\ exit_status = <<>>
    /\ nsig = 0
    /\ ensured = 0
    /\ conns = [c \in Conns |-> NoConn]

\* a Content-Type header: whether it starts with multipart/form-data, and
\* its boundary parameter (<<>> when missing or empty)
NoCType == [multipart |-> FALSE, boundary |-> <<>>]
MultipartB == [multipart |-> TRUE, boundary |-> BoundaryB]
ContentTypes == { NoCType, MultipartB, [multipart |-> TRUE, boundary |-> <<>>] }

\* a Content-Length header: <<>> absent, <<n>> the integer n, ClenJunk
\* text int() rejects
ClenJunk == <<0, 0>>

\* a request; ctype, clen and body (the bytes the client sends before it
\* closes its side) matter to POST only
Request(method, auth, path, range) ==
    [method |-> method, auth |-> auth, path |-> path, range |-> range,
     ctype |-> NoCType, clen |-> <<>>, body |-> <<>>]

PostRequest(auth, path, ctype, clen, body) ==
    [method |-> "POST", auth |-> auth, path |-> path, range |-> NoRange,
     ctype |-> ctype, clen |-> clen, body |-> body]

NoReq == Request("none", NoAuthHeader, Path(<<"srv">>, TRUE), NoRange)

\* the GET and HEAD requests of the model: every Authorization header
\* with two Range headers, and the valid header with every Range header
GetRequests(method) ==
    { Request(method, a, p, r) : a \in AuthHeaders, p \in ReqPaths,
                                 r \in {NoRange, <<FieldNum(0), FieldNum(4)>>} }
    \cup { Request(method, GoodAuthHeader, p, r) : p \in ReqPaths, r \in RangeHeaders }

PostPaths ==
    { Path(<<"srv">>, TRUE), Path(<<"srv", "sub">>, TRUE), Path(<<"srv", "a.bin">>, FALSE),
      Path(<<"srv", "nope">>, TRUE), Path(<<"srv", "locked">>, TRUE) }

\* the POST requests of the model: every Authorization header and
\* Content-Type with one body; every body, whole, cut short by the client,
\* or with a Content-Length smaller than the body; one body to every path
PostRequests ==
    LET b0 == Body(<<>>, <<FilePart(<<"x.dat">>, <<"A", "B", "C">>)>>)
        top == Path(<<"srv">>, TRUE)
    IN  { PostRequest(a, top, ct, <<Len(b0)>>, b0) : a \in AuthHeaders, ct \in ContentTypes }
        \cup { PostRequest(GoodAuthHeader, top, ct, cl, b0) :
                  ct \in ContentTypes, cl \in {<<>>, ClenJunk, <<-1>>, <<-5>>, <<0>>, <<2>>} }
        \cup { PostRequest(GoodAuthHeader, top, MultipartB, <<Len(b)>>, b) : b \in Bodies }
        \cup UNION { { PostRequest(GoodAuthHeader, top, MultipartB, <<Len(b)>>, Take(b, Len(b) - d)),
                       PostRequest(GoodAuthHeader, top, MultipartB, <<Len(b) - d>>, b) } :
                     b \in { x \in Bodies : Len(x) > MaxCut }, d \in 1 .. MaxCut }
        \cup { PostRequest(GoodAuthHeader, p, MultipartB, <<Len(b)>>, b) :
                  p \in PostPaths,
                  b \in { b0, Body(<<>>, <<DeletePart(<<"x.dat">>)>>),
                          Body(<<>>, <<FilePart(<<"..", "/", "y.dat">>, <<"A">>)>>),
                          Body(<<>>, <<DeletePart(<<"..", "/", "secret">>)>>) } }

\* the locals of a handler thread that has no request yet
IdleThread ==
    [req |-> NoReq, resp |-> NoResp, pc |-> "idle", buffer |-> <<>>, bytes_read |-> 0,
     uploaded_files |-> <<>>, delete_files |-> <<>>, cur |-> <<>>, flog |-> <<>>,
     fs_pre |-> InitFS]

Init ==
    /\ fs = InitFS
    /\ fs_pre = InitFS
    /\ mode \in {"read", "write"}
    /\ req = NoReq
    /\ resp = NoResp
    /\ pc = "idle"
    /\ buffer = <<>>
    /\ bytes_read = 0
    /\ uploaded_files = <<>>
    /\ delete_files = <<>>
    /\ cur = <<>>
    /\ flog = <<>>
    /\ nreq = 0
    /\ peer = IdleThread
    /\ cert = GoodCert
    /\ redirect = FALSE
    /\ ServerInit
    /\ sel = NoSel
    /\ lst = NoList

ResetParser ==
    /\ buffer' = <<>>
    /\ bytes_read' = 0
    /\ uploaded_files' = <<>>
    /\ delete_files' = <<>>
    /\ cur' = <<>>
    /\ flog' = <<>>

\* ---------------------------------------------------------------------
\* GET and HEAD requests
\* ---------------------------------------------------------------------
\* Requests are handled one at a time, from the arrival of a request to
\* the end of its handler. In read mode every sequence of up to
\* MaxRequests requests is explored (Close, then the next request); in
\* write mode one request, and a POST sent again unchanged (PostAgain).
Arrival ==
    /\ pc = "idle"
    /\ nreq < MaxRequests
    /\ req.method = "none"

\* the handler has returned and the connection is closed: the server is
\* ready for the next request
Close ==
    /\ pc = "idle"
    /\ req.method # "none"
    /\ mode = "read"
    /\ nreq < MaxRequests
    /\ req' = NoReq
    /\ resp' = NoResp
    /\ UNCHANGED <<fs, fs_pre, outside, pc, parser_vars, nreq>>

Get ==
    /\ Arrival
    /\ \E rq \in GetRequests("GET") :
          /\ req' = rq
          /\ resp' = do_GET(fs, rq)
    /\ fs_pre' = fs
    /\ nreq' = nreq + 1
    /\ ResetParser
    /\ UNCHANGED <<fs, outside, pc>>

HeadReq ==
    /\ Arrival
    /\ \E rq \in GetRequests("HEAD") :
          /\ req' = rq
          /\ resp' = do_HEAD(fs, rq)
    /\ fs_pre' = fs
    /\ nreq' = nreq + 1
    /\ ResetParser
    /\ UNCHANGED <<fs, outside, pc>>

\* ---------------------------------------------------------------------
\* POST: do_POST up to the call of the parser
\* ---------------------------------------------------------------------
\* int(self.headers.get("Content-Length", 0))
content_length(rq) == IF rq.clen = <<>> THEN 0 ELSE rq.clen[1]

\* a server that lets every mode write
WriteAllowedAlways(m) == TRUE

\* line 792: the server mode that lets a POST through
WriteAllowed(m) == m = "write"

\* do_POST, lines 787-815: the response when the request is refused
\* before parsing, NoResp when the parser is to run
do_POST_prologue(rq, m) ==
    LET a == check_auth(rq.auth)
    IN  IF a = "raise" THEN Raise(NoResp)
        ELSE IF a = "deny" THEN AuthRequired(NoResp)
        ELSE IF ~WriteAllowed(m) THEN send_error(NoResp, 403, "POST")
        ELSE IF rq.clen = ClenJunk THEN Raise(NoResp)
        ELSE IF ~rq.ctype.multipart THEN send_error(NoResp, 400, "POST")
        ELSE IF rq.ctype.boundary = <<>> THEN send_error(NoResp, 400, "POST")
        ELSE NoResp

\* do_POST is entered for the request rq
Post(rq) ==
    /\ req' = rq
    /\ resp' = do_POST_prologue(rq, mode)
    /\ pc' = IF do_POST_prologue(rq, mode) = NoResp THEN "step1" ELSE "idle"
    /\ fs_pre' = fs
    /\ nreq' = nreq + 1
    /\ ResetParser
    /\ UNCHANGED <<fs, outside>>

PostBegin ==
    /\ Arrival
    /\ \E rq \in PostRequests : Post(rq)

\* the client sends the POST it sent before once more
PostAgain ==
    /\ pc = "idle"
    /\ nreq < MaxRequests
    /\ mode = "write"
    /\ req.method = "POST"
    /\ Post(req)

\* ---------------------------------------------------------------------
\* POST: _parse_multipart_stream
\* ---------------------------------------------------------------------
Marker == CRLF \o boundary_bytes(req.ctype.boundary)

\* the argument of stream.read: min(BUFFER_SIZE, content_length - bytes_read)
ReadArg == Min(BUFFER_SIZE, content_length(req) - bytes_read)

\* bytes of the body not yet read
Avail == Len(req.body) - bytes_read

\* the lengths stream.read(n) may return: nothing at the end of the
\* stream or for n = 0, everything left for n = -1, else between 1 and n
\* bytes of what is left
ReadSizes(n) ==
    IF n = -1 THEN {Avail}
    ELSE IF Min(n, Avail) <= 0 THEN {0}
    ELSE 1 .. Min(n, Avail)

Chunk(k) == SubSeq(req.body, bytes_read + 1, bytes_read + k)

\* an except clause that goes on to the delete loop after the error page
ParserFailNoReturn ==
    /\ resp' = send_error(resp, 500, "POST")
    /\ pc' = "apply"
    /\ cur' = <<>>
\* except Exception in do_POST, lines 827-829
ParserFail ==
    /\ resp' = send_error(resp, 500, "POST")
    /\ pc' = "idle"
    /\ cur' = <<>>

\* one iteration of the loop of step 1, lines 866-875
Step1 ==
    /\ pc = "step1"
    /\ IF ReadArg < -1
       THEN /\ ParserFail
            /\ UNCHANGED <<buffer, bytes_read>>
       ELSE \E k \in ReadSizes(ReadArg) :
               IF k = 0
               THEN /\ ParserFail
                    /\ UNCHANGED <<buffer, bytes_read>>
               ELSE LET buf == buffer \o Chunk(k)
                        pos == Find(buf, boundary_bytes(req.ctype.boundary))
                    IN  /\ bytes_read' = bytes_read + k
                        /\ buffer' = IF pos # -1
                                     THEN Drop(buf, pos + Len(boundary_bytes(req.ctype.boundary)))
                                     ELSE buf
                        /\ pc' = IF pos # -1 THEN "headers" ELSE "step1"
                        /\ UNCHANGED <<resp, cur>>
    /\ UNCHANGED <<nreq, fs, fs_pre, outside, req, uploaded_files, delete_files, flog>>

HeaderEnd == <<CR, LF, CR, LF>>

\* one iteration of the header loop, lines 880-885
ReadHeaders ==
    /\ pc = "headers"
    /\ ~Contains(buffer, HeaderEnd)
    /\ bytes_read < content_length(req)
    /\ \E k \in ReadSizes(ReadArg) :
          IF k = 0
          THEN /\ pc' = "parse"
               /\ UNCHANGED <<buffer, bytes_read>>
          ELSE /\ bytes_read' = bytes_read + k
               /\ buffer' = buffer \o Chunk(k)
               /\ pc' = "headers"
    /\ UNCHANGED <<nreq, fs, fs_pre, outside, req, resp, uploaded_files, delete_files, cur, flog>>

\* line 953: where the part loop goes after a part
AfterPart(buf) ==
    IF StartsWith(buf, boundary_bytes(req.ctype.boundary) \o <<"-", "-">>) THEN "apply" ELSE "headers"

\* a part loop that leaves the header block in the buffer
AfterHeadersKeep(buf, headers_end) == buf

\* line 892: the buffer after the header block and its blank line
AfterHeaders(buf, headers_end) == Drop(buf, headers_end + 4)

\* the file path of a file part without os.path.basename
UploadPathNoBasename(target, filename) == JoinPath(target, normalize_filename(filename))

\* lines 907-908: the path a file part is written to
UploadPath(target, filename) == JoinPath(target, normalize_filename(basename(filename)))

\* lines 887-909: the header block is complete, or no more can be read
\* lines 880-883: the header loop is over
HeadersDone ==
    \/ pc = "parse"
    \/ /\ pc = "headers"
       /\ Contains(buffer, HeaderEnd) \/ bytes_read >= content_length(req)

ParsePart ==
    /\ HeadersDone
    /\ LET headers_end == Find(buffer, HeaderEnd)
           h == PartHeaders(Take(buffer, headers_end))
           rest == AfterHeaders(buffer, headers_end)
           fp == UploadPath(req.path.fs, h.filename)
       IN  IF headers_end = -1
           THEN /\ pc' = "apply"
                /\ UNCHANGED <<fs, resp, buffer, cur, flog>>
           ELSE IF h.field_name = <<"file">> /\ h.filename # <<>>
           THEN IF fp.ok /\ fp.path \notin Dirs
                THEN /\ fs' = (fp.path :> <<>>) @@ fs
                     /\ cur' = <<fp.path>>
                     /\ flog' = Append(flog, [path |-> fp.path,
                                              start |-> bytes_read - Len(rest),
                                              how |-> "open", written |-> <<>>])
                     /\ buffer' = rest
                     /\ pc' = "file"
                     /\ UNCHANGED resp
                ELSE /\ ParserFail
                     /\ buffer' = rest
                     /\ UNCHANGED <<fs, flog>>
           ELSE /\ buffer' = rest
                /\ pc' = IF h.field_name = <<"delete_files">> THEN "delete" ELSE AfterPart(rest)
                /\ UNCHANGED <<fs, resp, cur, flog>>
    /\ UNCHANGED <<nreq, fs_pre, outside, req, bytes_read, uploaded_files, delete_files>>

\* a flush that holds back two bytes fewer than the terminator is long
WriteSizeShort(buf, marker) == Len(buf) - (Len(marker) - 2)

\* lines 917-918: how many buffered bytes go to disk before the next read
WriteSize(buf, marker) == Len(buf) - Len(marker)

\* f.write(data) on the open file
WriteCur(data) == [fs EXCEPT ![cur[1]] = @ \o data]

\* the end of the with block of a file part: the file is closed and
\* uploaded_files.append(filename), line 932
CloseFile(how, newfs) ==
    /\ fs' = newfs
    /\ cur' = <<>>
    /\ uploaded_files' = Append(uploaded_files, <<Last(cur[1])>>)
    /\ flog' = [flog EXCEPT ![Len(flog)] = [@ EXCEPT !.how = how, !.written = newfs[cur[1]]]]

\* one iteration of the loop of a file part, lines 910-931
FileStep ==
    /\ pc = "file"
    /\ LET pos == Find(buffer, Marker)
           flushed == IF Len(buffer) > Len(Marker) THEN WriteSize(buffer, Marker) ELSE 0
       IN  IF pos # -1
           THEN /\ CloseFile("terminator", WriteCur(Take(buffer, pos)))
                /\ buffer' = Drop(buffer, pos + 2)
                /\ pc' = AfterPart(Drop(buffer, pos + 2))
                /\ UNCHANGED bytes_read
           ELSE IF bytes_read < content_length(req)
           THEN \E k \in ReadSizes(ReadArg) :
                   IF k = 0
                   THEN /\ CloseFile("eof", WriteCur(buffer))
                        /\ buffer' = <<>>
                        /\ pc' = AfterPart(<<>>)
                        /\ UNCHANGED bytes_read
                   ELSE /\ fs' = WriteCur(Take(buffer, flushed))
                        /\ buffer' = Drop(buffer, flushed) \o Chunk(k)
                        /\ bytes_read' = bytes_read + k
                        /\ pc' = "file"
                        /\ UNCHANGED <<cur, uploaded_files, flog>>
           ELSE /\ CloseFile("exhausted", WriteCur(buffer))
                /\ buffer' = <<>>
                /\ pc' = AfterPart(<<>>)
                /\ UNCHANGED bytes_read
    /\ UNCHANGED <<nreq, fs_pre, outside, req, resp, delete_files>>

\* line 939-940: the name a delete_files value gives
DeleteName(value) == normalize_filename(Strip(value, Whitespace))

\* one iteration of the loop of a delete_files part, lines 936-950
DeleteStep ==
    /\ pc = "delete"
    /\ LET pos == Find(buffer, Marker)
       IN  IF pos # -1
           THEN /\ delete_files' = Append(delete_files, DeleteName(Take(buffer, pos)))
                /\ buffer' = Drop(buffer, pos + 2)
                /\ pc' = AfterPart(Drop(buffer, pos + 2))
                /\ UNCHANGED bytes_read
           ELSE IF bytes_read < content_length(req)
           THEN \E k \in ReadSizes(ReadArg) :
                   IF k = 0
                   THEN /\ pc' = AfterPart(buffer)
                        /\ UNCHANGED <<buffer, bytes_read, delete_files>>
                   ELSE /\ buffer' = buffer \o Chunk(k)
                        /\ bytes_read' = bytes_read + k
                        /\ pc' = "delete"
                        /\ UNCHANGED delete_files
           ELSE /\ pc' = AfterPart(buffer)
                /\ UNCHANGED <<buffer, bytes_read, delete_files>>
    /\ UNCHANGED <<nreq, fs, fs_pre, outside, req, resp, uploaded_files, cur, flog>>

\* ---------------------------------------------------------------------
\* POST: do_POST after the parser returned
\* ---------------------------------------------------------------------
\* a delete loop that calls os.remove for every name
IsFileAtAlways(f, jp) == TRUE

\* line 834: os.path.isfile(path)
IsFileAt(f, jp) == jp.ok /\ jp.path \in DOMAIN f

RECURSIVE ApplyDelete(_, _, _)

\* an except clause that passes: the loop goes on with the next name
RemoveErrorPass(f, target, names) == ApplyDelete(f, target, Tail(names))

\* lines 837-839: os.remove raised for the first of names; the error names
\* it and do_POST returns
RemoveError(f, target, names) == [fs |-> f, failed |-> TRUE, name |-> Head(names)]

\* lines 832-839: every name that os.path.isfile finds under
\* os.path.join(target_dir, name) is removed; os.remove raises for a path
\* that is not there or that may not be removed, and the loop ends with
\* the error (failed)
ApplyDelete(f, target, names) ==
    IF names = <<>> THEN [fs |-> f, failed |-> FALSE, name |-> <<>>]
    ELSE LET jp == JoinPath(target, Head(names))
         IN  IF IsFileAt(f, jp)
             THEN IF jp.ok /\ jp.path \in DOMAIN f /\ jp.path \notin Undeletable
                  THEN ApplyDelete([q \in (DOMAIN f) \ {jp.path} |-> f[q]], target, Tail(names))
                  ELSE RemoveError(f, target, names)
             ELSE ApplyDelete(f, target, Tail(names))

\* lines 842-851: the success page
SuccessPage(f, rq, uploaded) ==
    LET rp == render_page(f, rq, NoResp)
        sent == [send_response(rp.resp, 200) EXCEPT !.ctype = "text/html; charset=utf-8"]
    IN  IF rp.html
        THEN [sent EXCEPT !.listing = rp.listing,
                          !.msg = IF uploaded # <<>> THEN "Upload successful"
                                  ELSE "Delete successful"]
        ELSE Raise(sent)

\* do_POST, lines 825-851
Apply ==
    /\ pc = "apply"
    /\ LET done == ApplyDelete(fs, req.path.fs, delete_files)
       IN  /\ fs' = done.fs
           /\ resp' = IF done.failed
                      THEN [send_error(resp, 500, "POST") EXCEPT !.named = <<done.name>>]
                      ELSE SuccessPage(done.fs, req, uploaded_files)
    /\ pc' = "idle"
    /\ UNCHANGED <<nreq, fs_pre, outside, req, parser_vars>>

Next ==
    \/ Get
    \/ HeadReq
    \/ Close
    \/ PostBegin
    \/ PostAgain
    \/ Step1
    \/ ReadHeaders
    \/ ParsePart
    \/ FileStep
    \/ DeleteStep
    \/ Apply

Spec == Init /\ [][Next]_vars

\* every stream read returns, and the handler thread keeps running: each
\* step of a handler is taken when it stays possible. No request has to
\* arrive. The fairness of ParsePart is written with its guard HeadersDone
\* in place of ENABLED.
LiveSpec ==
    /\ Spec
    /\ WF_vars(Step1) /\ WF_vars(ReadHeaders) /\ WF_vars(FileStep)
    /\ WF_vars(DeleteStep) /\ WF_vars(Apply)
    /\ <>[]HeadersDone => []<><<ParsePart>>_vars

\* ---------------------------------------------------------------------
\* Two handler threads
\* ---------------------------------------------------------------------
\* ThreadingHTTPServer (line 1138) runs the handler of every connection on
\* a thread of its own. The variables req .. flog are the locals of the
\* thread that is running, peer holds those of the other thread, and the
\* scheduler may switch between them before every step; fs is what the
\* threads share.

\* the uploads of the model's concurrent clients: a filename and the
\* content of the file part
ConcUploads ==
    { [name |-> "x.dat", data |-> <<"A", "B", "C">>],
      [name |-> "x.dat", data |-> <<"A", CR, LF, "-", "-", "B", "C", "D">>],
      [name |-> "y.dat", data |-> <<"A", "B", "C">>] }

UploadRequest(u) ==
    PostRequest(GoodAuthHeader, Path(<<"srv">>, TRUE), MultipartB,
                <<Len(Body(<<>>, <<FilePart(<<u.name>>, u.data)>>))>>,
                Body(<<>>, <<FilePart(<<u.name>>, u.data)>>))

\* the locals of the running thread
Local ==
    [req |-> req, resp |-> resp, pc |-> pc, buffer |-> buffer, bytes_read |-> bytes_read,
     uploaded_files |-> uploaded_files, delete_files |-> delete_files, cur |-> cur,
     flog |-> flog, fs_pre |-> fs_pre]

\* a buffer that is an attribute shared by the handlers
SharedBuffer(t) == buffer

\* line 863: buffer is a local variable of the parser of each handler
LocalBuffer(t) == t.buffer

\* the scheduler takes the running thread off the processor and runs the
\* other one
Switch ==
    /\ peer' = Local
    /\ req' = peer.req
    /\ resp' = peer.resp
    /\ pc' = peer.pc
    /\ buffer' = LocalBuffer(peer)
    /\ bytes_read' = peer.bytes_read
    /\ uploaded_files' = peer.uploaded_files
    /\ delete_files' = peer.delete_files
    /\ cur' = peer.cur
    /\ flog' = peer.flog
    /\ fs_pre' = peer.fs_pre
    /\ UNCHANGED <<fs, mode, nreq, server_vars, conns, sel, lst>>

\* a connection is accepted and its thread enters do_POST with an upload
\* whose filename differs from the one the other thread is uploading
ConcPost ==
    /\ Arrival
    /\ \E u \in ConcUploads :
          /\ \A v \in ConcUploads : peer.req = UploadRequest(v) => v.name # u.name
          /\ Post(UploadRequest(u))

ConcInit == Init /\ mode = "write"

ConcSpec ==
    /\ ConcInit
    /\ [][\/ ConcPost
          \/ Switch
          \/ Step1
          \/ ReadHeaders
          \/ ParsePart
          \/ FileStep
          \/ Apply]_vars

\* ---------------------------------------------------------------------
\* DualProtocolServer: construction, start and shutdown
\* ---------------------------------------------------------------------
\* how many signals are delivered to the process
MaxSignals == 2

Running == exit_status = <<>>

\* __main__, line 1385: DualProtocolServer(...) runs _ensure_certificate,
\* which returns when both files exist and else runs openssl (check=True),
\* which writes the key and then the certificate; the exception of a
\* failed run reaches the except clause of __main__ and sys.exit(1)
GenerationIgnored == main' = "start" /\ UNCHANGED exit_status
GenerationFailed == main' = "exited" /\ exit_status' = <<1>>

Construct ==
    /\ Running
    /\ main = "init"
    /\ ensured' = ensured + 1
    /\ IF cert.crt # "absent" /\ cert.key # "absent"
       THEN /\ main' = "start"
            /\ UNCHANGED <<cert, exit_status>>
       ELSE \/ /\ cert' = [crt |-> "valid", key |-> "valid",
                           openssl |-> Append(cert.openssl, "ok")]
               /\ main' = "start"
               /\ UNCHANGED exit_status
            \/ /\ \E k \in {cert.key, "valid"} :
                     cert' = [cert EXCEPT !.key = k, !.openssl = Append(@, "failed")]
               /\ GenerationFailed
    /\ UNCHANGED <<redirect, hpc, lsn, stop_event, handlers, nsig, handler_vars, conns, sel, lst>>

\* start(), lines 1205-1212: the listener threads are started
StartThreads ==
    /\ Running
    /\ main = "start"
    /\ lsn' = [l \in Listeners |->
                 IF l = "https" \/ redirect THEN [lsn[l] EXCEPT !.thread = "born"] ELSE lsn[l]]
    /\ main' = "install"
    /\ UNCHANGED <<cert, redirect, hpc, stop_event, handlers, exit_status, nsig, ensured,
                   handler_vars, conns, sel, lst>>

\* start(), lines 1229-1235: the handler is installed and the main thread
\* waits for stop_event
InstallHandlers ==
    /\ Running
    /\ main = "install"
    /\ handlers' = TRUE
    /\ main' = "wait"
    /\ UNCHANGED <<cert, redirect, hpc, lsn, stop_event, exit_status, nsig, ensured, handler_vars, conns, sel, lst>>

\* lines 1138-1141 and 1191-1193: the server object is created, which binds
\* and listens, and the attribute is set; OSError ends the thread
Bind(l) ==
    /\ Running
    /\ lsn[l].thread = "born"
    /\ \/ lsn' = [lsn EXCEPT ![l] = [@ EXCEPT !.thread = IF l = "https" THEN "bound" ELSE "ready",
                                              !.server = TRUE, !.sock = "listening"]]
       \/ lsn' = [lsn EXCEPT ![l] = [@ EXCEPT !.thread = "dead"]]
    /\ UNCHANGED <<cert, redirect, main, hpc, stop_event, handlers, exit_status, nsig, ensured,
                   handler_vars, conns, sel, lst>>

\* lines 1144-1149: ssl.wrap_socket loads the certificate and the key; an
\* error ends the thread with the server object set and its socket bound
Wrap ==
    /\ Running
    /\ lsn["https"].thread = "bound"
    /\ lsn' = [lsn EXCEPT !["https"] =
                 IF CertLoads THEN [@ EXCEPT !.thread = "ready", !.tls = TRUE]
                 ELSE [@ EXCEPT !.thread = "dead"]]
    /\ UNCHANGED <<cert, redirect, main, hpc, stop_event, handlers, exit_status, nsig, ensured,
                   handler_vars, conns, sel, lst>>

\* lines 1152 and 1196: serve_forever clears is_shut_down and enters its
\* loop
ServeForever(l) ==
    /\ Running
    /\ lsn[l].thread = "ready"
    /\ lsn' = [lsn EXCEPT ![l] = [@ EXCEPT !.thread = "serving", !.is_shut_down = FALSE]]
    /\ UNCHANGED <<cert, redirect, main, hpc, stop_event, handlers, exit_status, nsig, ensured,
                   handler_vars, conns, sel, lst>>

\* serve_forever finds shutdown_request set: it leaves the loop, clears
\* the flag and sets is_shut_down
LoopExit(l) ==
    /\ Running
    /\ lsn[l].thread = "serving"
    /\ lsn[l].shutdown_request
    /\ lsn' = [lsn EXCEPT ![l] = [@ EXCEPT !.thread = "returned", !.shutdown_request = FALSE,
                                           !.is_shut_down = TRUE]]
    /\ UNCHANGED <<cert, redirect, main, hpc, stop_event, handlers, exit_status, nsig, ensured,
                   handler_vars, conns, sel, lst>>

\* SIGINT or SIGTERM is delivered after start() was called: before the
\* handler is installed the signal ends the process, afterwards
\* shutdown_handler starts on the main thread
Signal ==
    /\ Running
    /\ main \in {"install", "wait", "forever"}
    /\ hpc = <<>>
    /\ nsig < MaxSignals
    /\ nsig' = nsig + 1
    /\ IF handlers
       THEN /\ hpc' = <<"ask", "http">>
            /\ UNCHANGED <<main, exit_status>>
       ELSE /\ main' = "exited"
            /\ exit_status' = <<128>>
            /\ UNCHANGED hpc
    /\ UNCHANGED <<cert, redirect, lsn, stop_event, handlers, ensured, handler_vars, conns, sel, lst>>

\* what shutdown_handler does after it is done with listener l
AfterListener(l) == IF l = "http" THEN <<"ask", "https">> ELSE <<"set">>

\* lines 1220-1221 and 1223-1224: the test of the attribute, and
\* shutdown(), which sets shutdown_request and then waits for is_shut_down
AskShutdown(l) ==
    /\ Running
    /\ hpc = <<"ask", l>>
    /\ IF lsn[l].server
       THEN /\ lsn' = [lsn EXCEPT ![l] = [@ EXCEPT !.shutdown_request = TRUE]]
            /\ hpc' = <<"wait", l>>
       ELSE /\ hpc' = AfterListener(l)
            /\ UNCHANGED lsn
    /\ UNCHANGED <<cert, redirect, main, stop_event, handlers, exit_status, nsig, ensured,
                   handler_vars, conns, sel, lst>>

\* shutdown() returns once is_shut_down is set; lines 1222 and 1225:
\* server_close() closes the socket
ServerClose(l) ==
    /\ Running
    /\ hpc = <<"wait", l>>
    /\ lsn[l].is_shut_down
    /\ lsn' = [lsn EXCEPT ![l] = [@ EXCEPT !.sock = "closed"]]
    /\ hpc' = AfterListener(l)
    /\ UNCHANGED <<cert, redirect, main, stop_event, handlers, exit_status, nsig, ensured,
                   handler_vars, conns, sel, lst>>

\* line 1226: stop_event.set(), and shutdown_handler returns
SetStopEvent ==
    /\ Running
    /\ hpc = <<"set">>
    /\ stop_event' = TRUE
    /\ hpc' = <<>>
    /\ UNCHANGED <<cert, redirect, main, lsn, handlers, exit_status, nsig, ensured, handler_vars, conns, sel, lst>>

\* line 1235 returns, start() returns, and __main__ goes on to line 1398:
\* threading.Event().wait()
StartReturns ==
    /\ Running
    /\ main = "wait"
    /\ hpc = <<>>
    /\ stop_event
    /\ main' = "forever"
    /\ UNCHANGED <<cert, redirect, hpc, lsn, stop_event, handlers, exit_status, nsig, ensured,
                   handler_vars, conns, sel, lst>>

\* the process before construction: the certificate files may be there or
\* not, and start() may be asked for the redirect listener
ServerSpecInit ==
    /\ fs = InitFS /\ fs_pre = InitFS /\ mode = "write" /\ req = NoReq /\ resp = NoResp
    /\ pc = "idle" /\ buffer = <<>> /\ bytes_read = 0 /\ uploaded_files = <<>>
    /\ delete_files = <<>> /\ cur = <<>> /\ flog = <<>> /\ nreq = 0 /\ peer = IdleThread
    /\ cert \in [crt : FileStates, key : FileStates, openssl : { <<>> }]
    /\ redirect \in BOOLEAN
    /\ ServerInit
    /\ sel = NoSel
    /\ lst = NoList

ServerSpec ==
    /\ ServerSpecInit
    /\ [][\/ Construct
          \/ StartThreads
          \/ InstallHandlers
          \/ \E l \in Listeners : Bind(l)
          \/ Wrap
          \/ \E l \in Listeners : ServeForever(l)
          \/ \E l \in Listeners : LoopExit(l)
          \/ Signal
          \/ \E l \in Listeners : AskShutdown(l)
          \/ \E l \in Listeners : ServerClose(l)
          \/ SetStopEvent
          \/ StartReturns]_vars

\* every thread keeps running: a step that stays possible is taken. No
\* signal has to arrive.
ServerLive ==
    /\ ServerSpec
    /\ WF_vars(Construct) /\ WF_vars(StartThreads) /\ WF_vars(InstallHandlers)
    /\ \A l \in Listeners :
          /\ WF_vars(Bind(l)) /\ WF_vars(ServeForever(l)) /\ WF_vars(LoopExit(l))
          /\ WF_vars(AskShutdown(l)) /\ WF_vars(ServerClose(l))
    /\ WF_vars(Wrap) /\ WF_vars(SetStopEvent) /\ WF_vars(StartReturns)

\* ---------------------------------------------------------------------
\* The plain-HTTP listener: RedirectHandler
\* ---------------------------------------------------------------------
\* A Host header is a sequence of tokens, <<>> when the header is absent;
\* the two tokens below stand for ":" followed by parent.http_port and by
\* parent.https_port.
HttpPort == ":http_port"
HttpsPort == ":https_port"

Hosts == { <<>>, <<"h", HttpPort>>, <<"h">>, <<"h", HttpsPort>> }

\* a request with its Host header
WithHost(rq, h) == rq @@ [host |-> h]

\* lines 1178-1181: the Host header, or localhost with the HTTP port, with
\* every ":<http_port>" replaced by ":<https_port>"
https_host(h) ==
    LET host == IF h = <<>> THEN <<"localhost", HttpPort>> ELSE h
    IN  [i \in DOMAIN host |-> IF host[i] = HttpPort THEN HttpsPort ELSE host[i]]

\* RedirectHandler.do_GET, lines 1177-1184, which do_POST calls
redirect_do_GET(rq) ==
    [send_response(NoResp, 301) EXCEPT !.loc = <<[host |-> https_host(rq.host), path |-> rq.path]>>]

\* a request arrives at the plain-HTTP listener and its handler returns
Redirected(rq, answer) ==
    /\ req' = rq
    /\ resp' = answer
    /\ fs_pre' = fs
    /\ nreq' = nreq + 1
    /\ ResetParser
    /\ UNCHANGED <<fs, outside, pc>>

RedirectGet ==
    /\ Arrival
    /\ \E rq \in GetRequests("GET"), h \in Hosts :
          Redirected(WithHost(rq, h), redirect_do_GET(WithHost(rq, h)))

RedirectPost ==
    /\ Arrival
    /\ \E rq \in PostRequests, h \in Hosts :
          Redirected(WithHost(rq, h), redirect_do_GET(WithHost(rq, h)))

\* RedirectHandler defines no do_HEAD: a HEAD request runs the do_HEAD
\* CustomHandler inherits
RedirectHead ==
    /\ Arrival
    /\ \E rq \in GetRequests("HEAD"), h \in Hosts :
          Redirected(WithHost(rq, h), do_HEAD(fs, rq))

RedirectSpec ==
    /\ Init
    /\ [][\/ RedirectGet
          \/ RedirectPost
          \/ RedirectHead]_vars

\* ---------------------------------------------------------------------
\* Connections: what serve_forever does with the clients of a listener
\* ---------------------------------------------------------------------

\* how a client behaves: "ok" sends a request and reads the answer;
\* "stall" connects and sends nothing; "slow" completes the TLS handshake
\* and then sends nothing; "bad" sends bytes of the wrong protocol or
\* resets at once; "badreq" sends a request whose handler raises (a
\* multipart body the parser rejects, a peer gone when the answer is
\* written)
Kinds == {"ok", "stall", "slow", "bad", "badreq"}

\* the thread of serve_forever of listener l is inside get_request or
\* finish_request of a connection
LoopBusy(l) ==
    \E c \in Conns : conns[c].lsn = l /\ conns[c].thread = "loop"

\* a client connects to a listening socket: the kernel completes the TCP
\* handshake and queues the connection
Connect(c, l, k) ==
    /\ Running
    /\ lsn[l].thread = "serving"
    /\ conns[c].st = "unborn"
    /\ \A d \in Conns : d < c => conns[d].st # "unborn"
    /\ conns' = [conns EXCEPT ![c] = [lsn |-> l, kind |-> k, st |-> "queued", thread |-> "none"]]
    /\ UNCHANGED <<handler_vars, server_vars, sel, lst>>

\* serve_forever -> _handle_request_noblock -> get_request: the oldest
\* queued connection is taken. The HTTPS listening socket is wrapped (line
\* 1144), so its accept() does the TLS handshake before it returns; the
\* redirect server is an HTTPServer (line 1191), whose process_request
\* calls finish_request in the same thread
Accept(c) ==
    /\ Running
    /\ conns[c].st = "queued"
    /\ lsn[conns[c].lsn].thread = "serving"
    /\ ~LoopBusy(conns[c].lsn)
    /\ \A d \in Conns : d < c /\ conns[d].lsn = conns[c].lsn => conns[d].st # "queued"
    /\ conns' = [conns EXCEPT ![c].thread = "loop",
                              ![c].st = IF lsn[conns[c].lsn].tls THEN "accepting" ELSE "handling"]
    /\ UNCHANGED <<handler_vars, server_vars, sel, lst>>

\* an exception of get_request (OSError, swallowed by
\* _handle_request_noblock) or of the handler (handle_error and
\* shutdown_request in socketserver; lines 1170-1175 in RedirectHandler)
\* closes the connection and nothing else
OnErrorRaise(c) ==
    /\ conns' = [conns EXCEPT ![c].st = "failed", ![c].thread = "none"]
    /\ lsn' = [lsn EXCEPT ![conns[c].lsn].thread = "dead"]
    /\ UNCHANGED <<handler_vars, cert, redirect, main, hpc, stop_event, handlers,
                   exit_status, nsig, ensured, sel, lst>>
OnError(c) ==
    /\ conns' = [conns EXCEPT ![c].st = "failed", ![c].thread = "none"]
    /\ UNCHANGED <<handler_vars, server_vars, sel, lst>>

\* the TLS handshake inside accept() ends: ThreadingMixIn.process_request
\* starts a thread for the connection, or the handshake fails. It does not
\* end while the client sends nothing.
Handshake(c) ==
    /\ Running
    /\ conns[c].st = "accepting"
    /\ conns[c].kind # "stall"
    /\ IF conns[c].kind = "bad"
       THEN OnError(c)
       ELSE /\ conns' = [conns EXCEPT ![c].st = "handling", ![c].thread = "own"]
            /\ UNCHANGED <<handler_vars, server_vars, sel, lst>>

\* finish_request ends: the handler has answered, or it has raised. It
\* does not end while it waits for bytes of the client.
Handle(c) ==
    /\ Running
    /\ conns[c].st = "handling"
    /\ conns[c].kind \notin {"stall", "slow"}
    /\ IF conns[c].kind = "ok"
       THEN /\ conns' = [conns EXCEPT ![c].st = "done", ![c].thread = "none"]
            /\ UNCHANGED <<handler_vars, server_vars, sel, lst>>
       ELSE OnError(c)

\* a client that sent nothing closes its connection
Hangup(c) ==
    /\ Running
    /\ conns[c].st \in {"accepting", "handling"}
    /\ conns[c].kind \in {"stall", "slow"}
    /\ conns' = [conns EXCEPT ![c].kind = "bad"]
    /\ UNCHANGED <<handler_vars, server_vars, sel, lst>>

\* start(redirect=True) after both listeners entered serve_forever
ConnInit ==
    /\ fs = InitFS /\ fs_pre = InitFS /\ mode = "write" /\ req = NoReq /\ resp = NoResp
    /\ pc = "idle" /\ buffer = <<>> /\ bytes_read = 0 /\ uploaded_files = <<>>
    /\ delete_files = <<>> /\ cur = <<>> /\ flog = <<>> /\ nreq = 0 /\ peer = IdleThread
    /\ cert = GoodCert /\ redirect = TRUE /\ main = "wait" /\ hpc = <<>>
    /\ lsn = [l \in Listeners |->
                [thread |-> "serving", server |-> TRUE, sock |-> "listening",
                 tls |-> (l = "https"), shutdown_request |-> FALSE, is_shut_down |-> FALSE]]
    /\ stop_event = FALSE /\ handlers = TRUE /\ exit_status = <<>> /\ nsig = 0
    /\ ensured = 1
    /\ conns = [c \in Conns |-> NoConn]
    /\ sel = NoSel
    /\ lst = NoList

ConnSpec ==
    /\ ConnInit
    /\ [][\/ \E c \in Conns, l \in Listeners, k \in Kinds : Connect(c, l, k)
          \/ \E c \in Conns : Accept(c)
          \/ \E c \in Conns : Handshake(c)
          \/ \E c \in Conns : Handle(c)
          \/ \E c \in Conns : Hangup(c)]_vars

\* every thread of the server keeps running; no client has to connect or
\* to hang up
ConnLive ==
    /\ ConnSpec
    /\ \A c \in Conns : WF_vars(Accept(c)) /\ WF_vars(Handshake(c)) /\ WF_vars(Handle(c))

\* ---------------------------------------------------------------------
\* __main__: the choice of the port and of the address to bind
\* ---------------------------------------------------------------------

\* the end of the scan of select_bind_port, range(8080, 65535) in the code
ScanTop == 8082

\* test_bind_ip: the probe binds (ip, port) and closes the socket again;
\* sel.free holds the pairs that can be bound while __main__ chooses
test_bind_ip_open(ip, port) == TRUE
test_bind_ip(ip, port) == <<ip, port>> \in sel.free

\* select_bind_port(check_requested_port): <<port>>, or <<>> for the
\* RuntimeError. sel.ips is what get_bindable_ips() returns, sel.root
\* whether os.geteuid() is 0
select_bind_port(check_requested_port) ==
    LET cand == sel.ips \o <<"0.0.0.0">>
        probe(port) == \E i \in 1..Len(cand) : test_bind_ip(cand[i], port)
        RECURSIVE scan(_)
        scan(port) == IF port >= ScanTop THEN <<>>
                      ELSE IF probe(port) THEN <<port>> ELSE scan(port + 1)
    IN  IF check_requested_port < 1024 /\ ~sel.root
        THEN scan(8080)
        ELSE IF probe(check_requested_port) THEN <<check_requested_port>> ELSE <<>>

\* select_bind_ip(port, requested_ip); sel.routed is what get_routed_ip()
\* returns, <<>> for None
select_bind_ip(port, requested_ip) ==
    IF requested_ip # <<>> /\ requested_ip # <<"0.0.0.0">> /\ test_bind_ip(requested_ip[1], port)
    THEN requested_ip[1]
    ELSE IF sel.routed # <<>> /\ test_bind_ip(sel.routed[1], port)
    THEN sel.routed[1]
    ELSE LET hits == { i \in 1..Len(sel.ips) : test_bind_ip(sel.ips[i], port) }
         IN  IF hits # {}
             THEN sel.ips[CHOOSE i \in hits : \A j \in hits : i <= j]
             ELSE "0.0.0.0"

\* __main__, line 1364: bind_port = select_bind_port(args.port); the
\* RuntimeError reaches the except clause of line 1400 and sys.exit(1)
SelectPort ==
    /\ Running
    /\ sel.pc = "start"
    /\ LET port == select_bind_port(sel.p)
       IN  IF port = <<>>
           THEN /\ sel' = [sel EXCEPT !.pc = "failed"]
                /\ main' = "exited"
                /\ exit_status' = <<1>>
           ELSE /\ sel' = [sel EXCEPT !.pc = "port", !.port = port[1]]
                /\ UNCHANGED <<main, exit_status>>
    /\ UNCHANGED <<handler_vars, cert, redirect, hpc, lsn, stop_event, handlers, nsig,
                   ensured, conns, lst>>

\* __main__, line 1370: bind_ip = select_bind_ip(bind_port, args.bind)
SelectIp ==
    /\ Running
    /\ sel.pc = "port"
    /\ sel' = [sel EXCEPT !.pc = "done", !.ip = select_bind_ip(sel.port, sel.requested_ip)]
    /\ UNCHANGED <<handler_vars, server_vars, conns, lst>>

\* __main__ before line 1364: the arguments --port and --bind, the user,
\* the addresses of the interfaces that are up, the routed address, and
\* what can be bound
BindInit ==
    /\ fs = InitFS /\ fs_pre = InitFS /\ mode = "write" /\ req = NoReq /\ resp = NoResp
    /\ pc = "idle" /\ buffer = <<>> /\ bytes_read = 0 /\ uploaded_files = <<>>
    /\ delete_files = <<>> /\ cur = <<>> /\ flog = <<>> /\ nreq = 0 /\ peer = IdleThread
    /\ cert = GoodCert /\ redirect = FALSE
    /\ ServerInit
    /\ sel \in [pc : {"start"},
                p : {443, 8081},
                root : BOOLEAN,
                requested_ip : { <<>>, <<"0.0.0.0">>, <<"10.0.0.5">> },
                routed : { <<>>, <<"192.168.1.7">> },
                ips : { <<>>, <<"192.168.1.7">>, <<"10.0.0.5", "192.168.1.7">> },
                free : SUBSET ({"10.0.0.5", "192.168.1.7", "0.0.0.0"}
                                \X ({443} \cup 8080..(ScanTop - 1))),
                port : {0},
                ip : {""}]
    /\ lst = NoList

BindSpec == BindInit /\ [][SelectPort \/ SelectIp]_vars

\* ---------------------------------------------------------------------
\* render_page step by step, next to a handler thread that removes and
\* uploads files of the directory being listed
\* ---------------------------------------------------------------------

\* the names of the model in the order sorted() gives them
NameOrder == <<"a.bin", "a.txt", "e.bin", "locked", "n.txt", "new.bin", "ro.dat", "sub", "x.dat">>

\* sorted(os.listdir(d)); the loop of line 420 takes the names in this
\* order as well
sorted_listdir(f, d) == SelectSeq(NameOrder, LAMBDA n : n \in ListDir(f, d))

\* the files the other thread removes, and the file it uploads
Victims == {"a.bin", "e.bin", "x.dat"}
Newcomers == {"new.bin"}

\* the path of the name the loop is at
ListPath == ServeRoot \o <<Head(lst.names)>>

\* do_GET (lines 735-751) and render_page up to line 420: the directory is
\* there and os.listdir succeeds
ListBegin ==
    /\ Arrival
    /\ lst.pc = "none"
    /\ req' = Request("GET", GoodAuthHeader, Path(ServeRoot, TRUE), NoRange)
    /\ resp' = NoResp
    /\ fs_pre' = fs
    /\ nreq' = nreq + 1
    /\ ResetParser
    /\ lst' = [pc |-> "size", names |-> sorted_listdir(fs, ServeRoot), stat |-> <<>>,
               total |-> 0, rows |-> <<>>, touched |-> {}]
    /\ UNCHANGED <<fs, mode, peer, server_vars, conns, sel, pc>>

\* line 423: os.path.isfile(p)
SizeIsFile ==
    /\ lst.pc = "size"
    /\ lst.names # <<>>
    /\ lst' = IF ListPath \in DOMAIN fs
              THEN [lst EXCEPT !.pc = "getsize"]
              ELSE [lst EXCEPT !.names = Tail(@)]
    /\ UNCHANGED <<handler_vars, server_vars, conns, sel>>

\* lines 424-426: os.path.getsize(p), whose OSError is passed over
SizeGet ==
    /\ lst.pc = "getsize"
    /\ lst' = [lst EXCEPT !.pc = "size", !.names = Tail(@),
                          !.total = IF ListPath \in DOMAIN fs THEN @ + Len(fs[ListPath]) ELSE @]
    /\ UNCHANGED <<handler_vars, server_vars, conns, sel>>

\* line 430: sorted(os.listdir(fs_path)) once the sizes are added up
ListAgain ==
    /\ lst.pc = "size"
    /\ lst.names = <<>>
    /\ lst' = [lst EXCEPT !.pc = "files", !.names = sorted_listdir(fs, ServeRoot)]
    /\ UNCHANGED <<handler_vars, server_vars, conns, sel>>

\* lines 436-437: except OSError: continue
StatErrorRaises(l) == [l EXCEPT !.pc = "raised"]
StatError(l) == [l EXCEPT !.names = Tail(@)]

\* lines 434-437: os.stat(fpath)
FileStat ==
    /\ lst.pc = "files"
    /\ lst.names # <<>>
    /\ lst' = IF ListPath \in DOMAIN fs
              THEN [lst EXCEPT !.pc = "row", !.stat = <<Len(fs[ListPath])>>]
              ELSE IF ListPath \in Dirs
              THEN [lst EXCEPT !.pc = "row", !.stat = <<0>>]
              ELSE StatError(lst)
    /\ UNCHANGED <<handler_vars, server_vars, conns, sel>>

\* lines 439-465: os.path.isdir(fpath), the size, the share of the total
\* (<<>> when the size or the total is 0) and the row of the name
FileRow ==
    /\ lst.pc = "row"
    /\ LET is_dir == IsDir(fs, ListPath)
           raw_size == IF is_dir THEN 0 ELSE lst.stat[1]
           percent == IF raw_size # 0 /\ lst.total # 0 THEN <<raw_size, lst.total>> ELSE <<>>
       IN  lst' = [lst EXCEPT !.pc = "files", !.names = Tail(@), !.stat = <<>>,
                              !.rows = Append(@, [name |-> Head(lst.names), size |-> raw_size,
                                                  percent |-> percent])]
    /\ UNCHANGED <<handler_vars, server_vars, conns, sel>>

\* render_page returns the page and do_GET (lines 753-759) sends it
ListEnd ==
    /\ lst.pc = "files"
    /\ lst.names = <<>>
    /\ lst' = [lst EXCEPT !.pc = "done"]
    /\ resp' = [send_response(resp, 200) EXCEPT
                   !.ctype = "text/html; charset=utf-8",
                   !.listing = << { lst.rows[i].name : i \in 1..Len(lst.rows) } >>]
    /\ UNCHANGED <<fs, fs_pre, mode, req, pc, parser_vars, nreq, peer, server_vars, conns, sel>>

ListRunning == lst.pc \in {"size", "getsize", "files", "row"}

\* do_POST of the other thread, line 836: os.remove(path)
PeerRemove(n) ==
    /\ ListRunning
    /\ mode = "write"
    /\ ServeRoot \o <<n>> \in DOMAIN fs
    /\ fs' = [q \in (DOMAIN fs) \ {ServeRoot \o <<n>>} |-> fs[q]]
    /\ lst' = [lst EXCEPT !.touched = @ \cup {n}]
    /\ UNCHANGED <<fs_pre, mode, req, resp, pc, parser_vars, nreq, peer, server_vars, conns, sel>>

\* _parse_multipart_stream of the other thread, lines 913 and 917: the file
\* is opened for writing, and bytes are written to it
PeerUpload(n) ==
    /\ ListRunning
    /\ mode = "write"
    /\ \/ /\ ServeRoot \o <<n>> \notin DOMAIN fs
          /\ fs' = fs @@ (ServeRoot \o <<n>> :> <<>>)
       \/ /\ ServeRoot \o <<n>> \in DOMAIN fs
          /\ fs[ServeRoot \o <<n>>] = <<>>
          /\ fs' = [fs EXCEPT ![ServeRoot \o <<n>>] = <<"N">>]
    /\ lst' = [lst EXCEPT !.touched = @ \cup {n}]
    /\ UNCHANGED <<fs_pre, mode, req, resp, pc, parser_vars, nreq, peer, server_vars, conns, sel>>

ListSpec ==
    /\ ConcInit
    /\ [][\/ ListBegin
          \/ SizeIsFile
          \/ SizeGet
          \/ ListAgain
          \/ FileStat
          \/ FileRow
          \/ ListEnd
          \/ \E n \in Victims : PeerRemove(n)
          \/ \E n \in Newcomers : PeerUpload(n)]_vars

\* the thread of the listing keeps running; no request has to arrive and
\* the other thread does not have to do anything
ListLive ==
    /\ ListSpec
    /\ WF_vars(SizeIsFile) /\ WF_vars(SizeGet) /\ WF_vars(ListAgain)
    /\ WF_vars(FileStat) /\ WF_vars(FileRow) /\ WF_vars(ListEnd)

\* ---------------------------------------------------------------------
\* Properties
\* ---------------------------------------------------------------------
\* the handler of the request has returned
Handled == pc = "idle" /\ req.method # "none"

\* the request carries a Basic Authorization header whose decoded text is
\* the configured username, a colon and the configured password
Authorized(rq) ==
    /\ rq.auth.present
    /\ rq.auth.prefix = "Basic "
    /\ rq.auth.kind = "b64"
    /\ rq.auth.text = AUTH_USERNAME \o <<":">> \o AUTH_PASSWORD

\* the body holds bytes other than the handler's literal pages
FileBytes(r) == \E i \in 1 .. Len(r.body) : r.body[i] \notin LiteralBodies

Statuses(r) == { r.status[i] : i \in 1 .. Len(r.status) }

\* the regular file a request addresses, when it addresses one
TargetIsFile == IsFile(fs_pre, req.path.fs, req.path.slash)
TargetContent == fs_pre[req.path.fs]

\* C1: a request of any method (GET, POST, HEAD) without the configured
\* credentials is not answered with file bytes, file metadata
\* (Content-Length, Content-Range of a file) or a listing, and changes no
\* file.
C1_AuthGate ==
    (req.method \in {"GET", "HEAD", "POST"} /\ ~Authorized(req))
        => /\ ~FileBytes(resp)
           /\ resp.clen = <<>>
           /\ resp.crange = <<>>
           /\ resp.listing = <<>>
           /\ fs = fs_pre

\* C2: a GET or POST without the configured credentials, whatever its
\* Authorization header, is answered 401 with the Basic challenge and no
\* content, and the handler does not end without a response.
C2_Always401 ==
    (Handled /\ req.method \in {"GET", "POST"} /\ ~Authorized(req))
        => /\ resp.status = <<401>>
           /\ resp.www = "Basic realm=\"File Server\""
           /\ ~FileBytes(resp)
           /\ resp.listing = <<>>
           /\ ~resp.exc

\* a Range header that breaks the bounds: no start, several ranges, start
\* at or beyond the size, end at or beyond the size, end before start
RangeViolatesBounds(rh, size) ==
    \/ Len(rh) = 3
    \/ /\ Len(rh) = 2
       /\ rh[2] = FieldEmpty \/ IsNum(rh[2])
       /\ \/ rh[1] = FieldEmpty
          \/ IsNum(rh[1]) /\ rh[1][1] >= size
          \/ IsNum(rh[1]) /\ IsNum(rh[2]) /\ (rh[2][1] >= size \/ rh[2][1] < rh[1][1])

\* C3: every 206 response has 0 <= start <= end < size, Content-Length
\* end-start+1 and that many body bytes; a Range header outside the bounds,
\* on a file the range logic serves, is answered 416 without an exception.
C3_RangeInvariant ==
    (Handled /\ req.method = "GET" /\ Authorized(req))
        => /\ 206 \in Statuses(resp)
              => /\ Len(resp.crange) = 1
                 /\ 0 <= resp.crange[1][1]
                 /\ resp.crange[1][1] <= resp.crange[1][2]
                 /\ resp.crange[1][2] < resp.crange[1][3]
                 /\ resp.clen = <<resp.crange[1][2] - resp.crange[1][1] + 1>>
                 /\ Len(resp.body) = resp.crange[1][2] - resp.crange[1][1] + 1
           /\ (TargetIsFile /\ ~is_text_config(req.path.fs) /\ req.range # NoRange
                 /\ RangeViolatesBounds(req.range, Len(TargetContent)))
              => resp.status = <<416>> /\ ~resp.exc

\* the request has a Range header start-end or start- with
\* 0 <= start <= end < size
ValidRange(rh, size) ==
    /\ Len(rh) = 2
    /\ IsNum(rh[1])
    /\ rh[1][1] < size
    /\ rh[2] = FieldEmpty \/ (IsNum(rh[2]) /\ rh[1][1] <= rh[2][1] /\ rh[2][1] < size)

RangeEnd(rh, size) == IF rh[2] = FieldEmpty THEN size - 1 ELSE rh[2][1]

\* C4: for every regular file and every valid start-end (end optional), an
\* authenticated GET is answered 206 with exactly bytes start..end of the
\* file and Content-Range start-end/size.
C4_ExactSlice ==
    (Handled /\ req.method = "GET" /\ Authorized(req) /\ TargetIsFile
       /\ ValidRange(req.range, Len(TargetContent)))
        => /\ resp.status = <<206>>
           /\ resp.body = SubSeq(TargetContent, req.range[1][1] + 1,
                                 RangeEnd(req.range, Len(TargetContent)) + 1)
           /\ resp.crange = <<(<<req.range[1][1], RangeEnd(req.range, Len(TargetContent)),
                                 Len(TargetContent)>>)>>

\* C5: an authenticated GET of a regular file with a Range header whose
\* start is at or beyond the file size is answered 416 with no file bytes.
C5_StartBeyondSize ==
    (Handled /\ req.method = "GET" /\ Authorized(req) /\ TargetIsFile
       /\ Len(req.range) = 2 /\ IsNum(req.range[1])
       /\ (req.range[2] = FieldEmpty \/ IsNum(req.range[2]))
       /\ req.range[1][1] >= Len(TargetContent))
        => resp.status = <<416>> /\ ~FileBytes(resp)

\* C6: GET /a.txt (12 bytes, hello world!) with Range: bytes=0-4 is
\* answered 206 with body hello and Content-Range 0-4/12, and with
\* Range: bytes=100-200 it is answered 416.
C6_TextFileRange ==
    (Handled /\ req.method = "GET" /\ Authorized(req)
       /\ req.path = Path(<<"srv", "a.txt">>, FALSE)
       /\ fs_pre[<<"srv", "a.txt">>] = HelloWorld)
        => /\ req.range = <<FieldNum(0), FieldNum(4)>>
              => /\ resp.status = <<206>>
                 /\ resp.body = <<"h", "e", "l", "l", "o">>
                 /\ resp.crange = <<(<<0, 4, 12>>)>>
           /\ req.range = <<FieldNum(100), FieldNum(200)>>
              => resp.status = <<416>>

\* C7: the files a POST removes are direct children of the directory the
\* request path addresses.
C7_DeleteConfined ==
    req.method = "POST"
        => \A p \in (DOMAIN fs_pre) \ (DOMAIN fs) : Parent(p) = req.path.fs

\* C8: every file a POST creates, truncates or writes is a direct child
\* of the directory the request path addresses, whatever filename the
\* file part gives.
C8_UploadConfined ==
    req.method = "POST"
        => \A p \in DOMAIN fs :
              (p \notin DOMAIN fs_pre \/ fs[p] # fs_pre[p]) => Parent(p) = req.path.fs

\* a file part whose filename had a directory component has been written
C8_Witness ==
    /\ Handled
    /\ req.body = Body(<<>>, <<FilePart(<<"..", "/", "y.dat">>, <<"A">>)>>)
    /\ req.path = Path(<<"srv">>, TRUE)
    /\ <<"srv", "y.dat">> \in DOMAIN fs
    /\ fs[<<"srv", "y.dat">>] = <<"A">>
    /\ resp.status = <<200>>

\* the bytes of the body the parser may read
Delivered ==
    IF content_length(req) = -1 THEN req.body
    ELSE Take(req.body, Min(Len(req.body), content_length(req)))

\* the bytes from offset start of the body up to the first terminator
\* after it; TermAt is -1 when no terminator follows
TermAt(start) == Find(Drop(Delivered, start), Marker)
PartContent(start) == Take(Drop(Delivered, start), TermAt(start))

IsPrefix(a, b) == Len(a) <= Len(b) /\ a = Take(b, Len(a))

\* C9: for every file part whose terminator is among the bytes read,
\* under every chunking: while the part is streamed the file holds a
\* prefix of the bytes between the header block and the terminator, the
\* part ends at the terminator, and the file then holds exactly those
\* bytes.
C9_ExactContent ==
    \A i \in 1 .. Len(flog) :
        /\ flog[i].how = "terminator"
              => TermAt(flog[i].start) # -1 /\ flog[i].written = PartContent(flog[i].start)
        /\ TermAt(flog[i].start) # -1
              => /\ flog[i].how \in {"open", "terminator"}
                 /\ flog[i].how = "open" => IsPrefix(fs[flog[i].path], PartContent(flog[i].start))

\* a file part whose content holds a proper prefix of the terminator has
\* been written, from reads of fewer bytes than the terminator is long
C9_Witness ==
    /\ flog # <<>>
    /\ flog[1].how = "terminator"
    /\ flog[1].written = <<"A", CR, LF, "-", "-", "B", "C", "D">>
    /\ fs[flog[1].path] = <<"A", CR, LF, "-", "-", "B", "C", "D">>
    /\ Handled
    /\ resp.status = <<200>>

\* C10: a filename is reported as uploaded, and the POST answered
\* Upload successful, only if the terminator of its file part was found.
C10_UploadedOnlyIfTerminated ==
    /\ \A i \in 1 .. Len(uploaded_files) : flog[i].how = "terminator"
    /\ resp.msg = "Upload successful" => \A i \in 1 .. Len(flog) : flog[i].how = "terminator"

\* C11: in every state of a parse the bytes read from the request stream
\* are no more than the declared Content-Length, and no upload file is
\* open outside the loop of its file part.
C11_ReadBound ==
    /\ req.method = "POST" => (bytes_read = 0 \/ bytes_read <= content_length(req))
    /\ pc # "file" => cur = <<>>

\* the parser is called for the request: do_POST refused nothing
ParserCalled == req.method = "POST" /\ do_POST_prologue(req, mode) = NoResp

\* the bytes of the body within the declared Content-Length
Declared == Take(req.body, Min(Len(req.body), IF content_length(req) < 0 THEN 0 ELSE content_length(req)))

\* C12: when the bytes within the declared Content-Length hold no opening
\* boundary, the parser stays in step 1, reads no more than the declared
\* length and fails, and the POST is answered 500.
C12_NoBoundary ==
    (ParserCalled /\ ~Contains(Declared, boundary_bytes(req.ctype.boundary)))
        => /\ pc \in {"step1", "idle"}
           /\ bytes_read = 0 \/ bytes_read <= content_length(req)
           /\ Handled => resp.status = <<500>>

\* the final boundary marker --<boundary>--
FinalMarker == boundary_bytes(req.ctype.boundary) \o <<"-", "-">>

\* C13: when every read returns, the parser terminates; each iteration of
\* the part loop consumes buffered bytes or leaves the loop; and the
\* parser returns only with the final boundary marker at the head of the
\* buffer, or with no further header block and the declared length or the
\* stream exhausted.
C13_Terminates ==
    /\ [](pc # "idle" => <>(pc \in {"apply", "idle"}))
    /\ [][ParsePart => (Len(buffer') < Len(buffer) \/ pc' \in {"apply", "idle"})]_vars
    /\ [][(pc # "apply" /\ pc' = "apply")
            => \/ StartsWith(buffer', FinalMarker)
               \/ /\ ~Contains(buffer', HeaderEnd)
                  /\ bytes_read' >= content_length(req) \/ Len(req.body) <= bytes_read']_vars

\* a body of a preamble, a file part and a delete_files part has been
\* parsed to its final boundary marker
C13_Witness ==
    /\ pc = "apply"
    /\ req.body = Body(<<"P", CR, LF>>, <<FilePart(<<"x.dat">>, <<"A", "B", "C">>), DeletePart(<<"x.dat">>)>>)
    /\ content_length(req) = Len(req.body)
    /\ StartsWith(buffer, FinalMarker)
    /\ uploaded_files = <<(<<"x.dat">>)>>
    /\ delete_files = <<(<<"x.dat">>)>>

\* the longest header block of a part the model's clients send, with the
\* boundary line before it and the blank line after it
MaxHeaderBlock == 30

\* a bound on the buffer made of the read-buffer size, the boundary length
\* and one header block
BufferBound == 2 * BUFFER_SIZE + 2 * Len(CRLF \o boundary_bytes(BoundaryB)) + MaxHeaderBlock

\* C14: throughout a parse the buffer holds no more bytes than a bound
\* made of the read-buffer size, the boundary length and one part's header
\* block.
C14_BufferBounded == Len(buffer) <= BufferBound

\* descriptions of well-formed parts: a file part with name= before
\* filename=, a file part with filename= before name=, a delete_files part
FileOf(fn, data) == [kind |-> "file", name |-> fn, data |-> data]
FileFirstOf(fn, data) == [kind |-> "filefirst", name |-> fn, data |-> data]
DeleteOf(value, name) == [kind |-> "delete", name |-> name, data |-> value]

\* the bytes of a described part
Encode(p) ==
    IF p.kind = "file" THEN FilePart(<<p.name>>, p.data)
    ELSE IF p.kind = "filefirst" THEN Part(CDFileFirst("file", <<p.name>>), p.data)
    ELSE DeletePart(p.data)

\* well-formed bodies of file parts and delete_files parts, in several
\* orders: a preamble and the described parts
MixedForms ==
    { [pre |-> <<"P", CR, LF>>,
       parts |-> <<FileOf("x.dat", <<"A", "B", "C">>), DeleteOf(<<"x.dat">>, "x.dat")>>],
      [pre |-> <<>>,
       parts |-> <<DeleteOf(<<"x.dat">>, "x.dat"), FileOf("x.dat", <<"A", "B", "C">>)>>],
      [pre |-> <<>>,
       parts |-> <<FileOf("x.dat", <<"A", CR, LF, "-">>), FileOf("y.dat", <<"B">>)>>],
      [pre |-> <<>>,
       parts |-> <<DeleteOf(<<"y.dat">>, "y.dat"), FileOf("x.dat", <<"A", "B", "C">>),
                   DeleteOf(<<" ", "x.dat", CR, LF>>, "x.dat")>>],
      [pre |-> <<>>, parts |-> <<FileFirstOf("y.dat", <<"B">>)>>],
      [pre |-> <<>>, parts |-> <<FileOf("x.dat", <<>>)>>],
      [pre |-> <<>>, parts |-> <<DeleteOf(<<"x.dat">>, "x.dat")>>] }

BodyOf(form) == Body(form.pre, [i \in DOMAIN form.parts |-> Encode(form.parts[i])])

\* the names of the parts of a kind, in body order
RECURSIVE NamesOf(_, _)
NamesOf(parts, kinds) ==
    IF parts = <<>> THEN <<>>
    ELSE (IF Head(parts).kind \in kinds THEN <<(<<Head(parts).name>>)>> ELSE <<>>)
         \o NamesOf(Tail(parts), kinds)

\* the parser has returned its two lists for the whole body of form,
\* sent to the serving root
ParsedWhole(form) ==
    /\ ParserCalled
    /\ req.path = Path(<<"srv">>, TRUE)
    /\ req.body = BodyOf(form)
    /\ content_length(req) = Len(req.body)
    /\ Handled

\* C15: for a well-formed body of file parts and delete_files parts in
\* any order, the parser returns the filenames of the file parts and the
\* trimmed values of the delete_files parts, each in body order.
C15_PartLists ==
    \A form \in MixedForms :
        ParsedWhole(form)
            => /\ resp.status = <<200>>
               /\ uploaded_files = NamesOf(form.parts, {"file", "filefirst"})
               /\ delete_files = NamesOf(form.parts, {"delete"})

\* bodies that open with a part that is neither a file part with a
\* filename nor a delete_files part: its header line, its content, and the
\* described parts that follow it
OtherForms ==
    { [hdr |-> CDName("note"), data |-> <<"N">>, rest |-> <<FileOf("y.dat", <<"B">>)>>],
      [hdr |-> CDFile("file", <<>>), data |-> <<"N">>, rest |-> <<DeleteOf(<<"y.dat">>, "y.dat")>>],
      [hdr |-> CDName("note"), data |-> LongRun, rest |-> <<FileOf("y.dat", <<"B">>)>>],
      [hdr |-> CDName("note"), data |-> HeaderLike, rest |-> <<FileOf("y.dat", <<"B">>)>>],
      [hdr |-> CDName("note"), data |-> <<"-", "-", "b", "-", "-">>,
       rest |-> <<FileOf("y.dat", <<"B">>)>>] }

BodyOfOther(form) ==
    Body(<<>>, <<Part(form.hdr, form.data)>> \o [i \in DOMAIN form.rest |-> Encode(form.rest[i])])

\* C16: a part that is neither a file part with a filename nor a
\* delete_files part is stored nowhere, and the parts after it give the
\* lists and the files they give without it, whatever its content.
C16_UnknownPartSkipped ==
    \A form \in OtherForms :
        (/\ ParserCalled
         /\ req.path = Path(<<"srv">>, TRUE)
         /\ req.body = BodyOfOther(form)
         /\ content_length(req) = Len(req.body)
         /\ Handled)
            => /\ resp.status = <<200>>
               /\ uploaded_files = NamesOf(form.rest, {"file", "filefirst"})
               /\ delete_files = NamesOf(form.rest, {"delete"})
               /\ \A p \in DOMAIN fs :
                     (p \notin DOMAIN fs_pre \/ fs[p] # fs_pre[p])
                         => \E i \in DOMAIN form.rest :
                               /\ form.rest[i].kind = "file"
                               /\ p = <<"srv", form.rest[i].name>>
                               /\ fs[p] = form.rest[i].data

\* C17: in read mode a POST that passes the authentication gate is
\* answered 403 and the parser is not called: no byte of the body is read,
\* nothing is uploaded or deleted.
C17_ReadMode403 ==
    (mode = "read" /\ req.method = "POST" /\ check_auth(req.auth) = "ok")
        => /\ pc = "idle"
           /\ resp.status = <<403>>
           /\ bytes_read = 0
           /\ buffer = <<>>
           /\ uploaded_files = <<>>
           /\ delete_files = <<>>
           /\ flog = <<>>
           /\ fs = fs_pre

\* a well-formed upload with the configured credentials has been refused
\* in read mode
C17_Witness ==
    /\ mode = "read"
    /\ Handled
    /\ req.method = "POST"
    /\ Authorized(req)
    /\ req.ctype = MultipartB
    /\ req.body = Body(<<>>, <<FilePart(<<"x.dat">>, <<"A", "B", "C">>)>>)
    /\ content_length(req) = Len(req.body)
    /\ resp.status = <<403>>

\* C18: in read mode no sequence of requests creates, changes or deletes
\* a file: the files are those the server started with.
C18_ReadModeFrame == mode = "read" => fs = InitFS

\* in read mode a delete request with the configured credentials has been
\* handled after another request, and the files are unchanged
C18_Witness ==
    /\ mode = "read"
    /\ nreq >= 2
    /\ Handled
    /\ req.method = "POST"
    /\ Authorized(req)
    /\ req.body = Body(<<>>, <<DeletePart(<<"x.dat">>)>>)
    /\ <<"srv", "x.dat">> \in DOMAIN fs
    /\ fs = InitFS

\* C19: in write mode an authenticated POST whose Content-Type does not
\* start with multipart/form-data, or has no boundary, is answered 400;
\* the parser is not called and no file is created, written or deleted.
C19_BadContentType400 ==
    (/\ mode = "write"
     /\ req.method = "POST"
     /\ check_auth(req.auth) = "ok"
     /\ ~req.ctype.multipart \/ req.ctype.boundary = <<>>)
        => /\ pc = "idle"
           /\ resp.status = <<400>>
           /\ ~resp.exc
           /\ bytes_read = 0
           /\ uploaded_files = <<>>
           /\ delete_files = <<>>
           /\ fs = fs_pre

\* the request of C20: a write-mode POST to the serving root whose body is
\* one delete_files part with the value x.dat
DeleteXdat ==
    /\ mode = "write"
    /\ req.method = "POST"
    /\ Authorized(req)
    /\ req.path = Path(<<"srv">>, TRUE)
    /\ req.ctype = MultipartB
    /\ req.body = Body(<<>>, <<DeletePart(<<"x.dat">>)>>)
    /\ content_length(req) = Len(req.body)

\* C20: the delete request for x.dat removes x.dat and nothing else and
\* is answered 200; sent again with x.dat absent it is answered 200 and
\* changes nothing.
C20_DeleteTwice ==
    (DeleteXdat /\ Handled)
        => /\ resp.status = <<200>>
           /\ <<"srv", "x.dat">> \notin DOMAIN fs
           /\ <<"srv", "x.dat">> \in DOMAIN fs_pre
                 => fs = [p \in (DOMAIN fs_pre) \ {<<"srv", "x.dat">>} |-> fs_pre[p]]
           /\ <<"srv", "x.dat">> \notin DOMAIN fs_pre => fs = fs_pre

\* the delete request has been handled a second time, with x.dat gone
\* since the first
C20_Witness ==
    /\ DeleteXdat
    /\ Handled
    /\ nreq = 2
    /\ <<"srv", "x.dat">> \notin DOMAIN fs_pre
    /\ <<"srv", "x.dat">> \in DOMAIN InitFS
    /\ fs = fs_pre
    /\ resp.status = <<200>>
    /\ resp.msg = "Delete successful"

\* the position of the first name of the delete list that names a file
\* which is there and cannot be removed, 0 when there is none
FirstUndeletable(f, target, names) ==
    LET bad == { i \in 1 .. Len(names) :
                    /\ JoinPath(target, names[i]).ok
                    /\ JoinPath(target, names[i]).path \in (DOMAIN f) \cap Undeletable }
    IN  IF bad = {} THEN 0 ELSE CHOOSE i \in bad : \A j \in bad : i <= j

\* the files names[1..k] name
NamedFiles(f, target, names, k) ==
    { JoinPath(target, names[i]).path :
         i \in { j \in 1 .. k : JoinPath(target, names[j]).ok
                                /\ JoinPath(target, names[j]).path \in DOMAIN f } }

\* C21: when os.remove fails for a name of the delete list, the POST is
\* answered 500 with a message naming that file, the files named before it
\* are gone and stay gone, and every other file, those named after it
\* included, is as it was.
C21_DeleteFailure ==
    [][(pc = "apply" /\ pc' = "idle"
          /\ FirstUndeletable(fs, req.path.fs, delete_files) # 0)
        => LET k == FirstUndeletable(fs, req.path.fs, delete_files)
               gone == NamedFiles(fs, req.path.fs, delete_files, k - 1)
           IN  /\ resp'.status = <<500>>
               /\ resp'.named = <<delete_files[k]>>
               /\ DOMAIN fs' = (DOMAIN fs) \ gone
               /\ \A p \in DOMAIN fs' : fs'[p] = fs[p]]_vars

\* the delete list x.dat, ro.dat, a.bin has been applied: x.dat is gone,
\* ro.dat could not be removed, a.bin is still there
C21_Witness ==
    /\ Handled
    /\ delete_files = << <<"x.dat">>, <<"ro.dat">>, <<"a.bin">> >>
    /\ req.path = Path(<<"srv">>, TRUE)
    /\ resp.status = <<500>>
    /\ resp.named = << <<"ro.dat">> >>
    /\ <<"srv", "x.dat">> \in DOMAIN fs_pre
    /\ <<"srv", "x.dat">> \notin DOMAIN fs
    /\ <<"srv", "ro.dat">> \in DOMAIN fs
    /\ <<"srv", "a.bin">> \in DOMAIN fs

\* C22: when two connections upload files with different filenames to the
\* same directory at the same time, under every interleaving of the
\* handlers' reads and writes: the file of an upload in progress holds a
\* prefix of its part, a finished upload is answered 200 and its file holds
\* exactly its part, and a step of one handler changes no local of the
\* other.
C22_ConcurrentUploads ==
    /\ [](\A u \in ConcUploads :
            req = UploadRequest(u)
               => /\ cur # <<>> => IsPrefix(fs[cur[1]], u.data)
                  /\ Handled => /\ resp.status = <<200>>
                                /\ fs[<<"srv", u.name>>] = u.data)
    /\ [][peer' = peer \/ (peer' = Local /\ Local' = peer)]_vars

\* both uploads are finished and both files hold their parts; the upload of
\* y.dat arrived while x.dat was open and partly written
C22_Witness ==
    /\ Handled
    /\ peer.fs_pre[<<"srv", "x.dat">>] \notin { <<"X">>, <<>>, <<"A", CR, LF, "-", "-", "B", "C", "D">> }
    /\ peer.pc = "idle"
    /\ req = UploadRequest([name |-> "x.dat", data |-> <<"A", CR, LF, "-", "-", "B", "C", "D">>])
    /\ peer.req = UploadRequest([name |-> "y.dat", data |-> <<"A", "B", "C">>])
    /\ fs[<<"srv", "x.dat">>] = <<"A", CR, LF, "-", "-", "B", "C", "D">>
    /\ fs[<<"srv", "y.dat">>] = <<"A", "B", "C">>
    /\ resp.status = <<200>>
    /\ peer.resp.status = <<200>>

\* listener l is accepting connections, or holds its bound socket
Accepting(l) == lsn[l].thread = "serving"
HoldsSocket(l) == lsn[l].sock = "listening"

\* shutdown_handler has run to its end and stop_event is set
ShutdownDone == Running /\ stop_event /\ hpc = <<>>

\* C23: wherever the listener threads are when the signal is delivered,
\* once shutdown_handler has finished and stop_event is set neither
\* listener is accepting or holds its bound socket, now or later.
C23_ListenersStopped ==
    ShutdownDone => \A l \in Listeners : ~Accepting(l) /\ ~HoldsSocket(l)

\* C24: whenever a signal starts shutdown_handler, the handler comes to
\* its end with stop_event set, whatever state the listener threads are
\* in; and once stop_event is set the main thread returns and the process
\* ends.
C24_ShutdownCompletes ==
    /\ [](hpc # <<>> => <>(hpc = <<>> /\ stop_event))
    /\ [](stop_event => <>(~Running))

\* the lifecycle state of the server: Stopped once stop_event is set,
\* ShuttingDown while shutdown_handler runs, Listening while the HTTPS
\* listener is in its accept loop, CertificateReady once the constructor
\* has returned, Created before. Rank numbers the states in their order.
Lifecycle ==
    IF stop_event THEN "Stopped"
    ELSE IF hpc # <<>> THEN "ShuttingDown"
    ELSE IF lsn["https"].thread = "serving" THEN "Listening"
    ELSE IF main # "init" THEN "CertificateReady"
    ELSE "Created"

Rank(s) ==
    CASE s = "Created" -> 1
      [] s = "CertificateReady" -> 2
      [] s = "Listening" -> 3
      [] s = "ShuttingDown" -> 4
      [] s = "Stopped" -> 5

\* every step of the running process keeps the lifecycle state or moves it
\* to the next one
LifecycleForward ==
    [][Running' => Rank(Lifecycle') \in {Rank(Lifecycle), Rank(Lifecycle) + 1}]_vars

\* _ensure_certificate runs once, at construction, before a listener
\* thread exists
ProvisionedOnce ==
    /\ ensured <= 1
    /\ main = "init" => ensured = 0 /\ \A l \in Listeners : lsn[l].thread = "unborn"
    /\ (Running /\ main # "init") => ensured = 1

\* the HTTPS listener is in its accept loop only with the certificate and
\* key in place and its socket wrapped
AcceptsOnlyWrapped == lsn["https"].thread = "serving" => CertLoads /\ lsn["https"].tls

\* C25: the lifecycle only moves forward through Created,
\* CertificateReady, Listening, ShuttingDown, Stopped without skipping a
\* state, the HTTPS listener accepts in no state but Listening and
\* ShuttingDown, the certificate is provisioned once at construction before
\* any listener thread exists, and the HTTPS listener accepts only with the
\* certificate present and its socket wrapped.
C25_Lifecycle ==
    /\ LifecycleForward
    /\ [](lsn["https"].thread = "serving" => Lifecycle \in {"Listening", "ShuttingDown"})
    /\ []ProvisionedOnce
    /\ []AcceptsOnlyWrapped

\* the host of the HTTPS equivalent of a request: its Host header with the
\* HTTP port, when it has one, replaced by the HTTPS port
ExpectedHost(h) ==
    IF h = <<>> THEN <<"localhost", HttpsPort>>
    ELSE IF Last(h) = HttpPort THEN Append(Take(h, Len(h) - 1), HttpsPort)
    ELSE h

\* every GET and POST is answered 301 to the HTTPS equivalent, and nothing
\* else
RedirectOnly ==
    (Handled /\ req.method \in {"GET", "POST"})
        => /\ resp.status = <<301>>
           /\ resp.loc = <<[host |-> ExpectedHost(req.host), path |-> req.path]>>
           /\ resp.body = <<>>
           /\ ~resp.exc

\* C26: the plain-HTTP listener answers every GET and POST, with or
\* without credentials, 301 with Location https://<host with the HTTP port
\* replaced by the HTTPS port><path>, and no request to it is answered with
\* file bytes or a listing or changes a file.
C26_RedirectOnly ==
    /\ RedirectOnly
    /\ req.method # "none" => ~FileBytes(resp) /\ resp.listing = <<>> /\ fs = InitFS

\* C28: when the HTTPS listener cannot bind at startup, or the certificate
\* cannot be generated or loaded, the process ends with a status other than
\* zero: it is never alive, its main thread waiting for a signal, while the
\* HTTPS listener thread has failed
StartupFailed == lsn["https"].thread = "dead"
C28_StartupFailureExits ==
    /\ ensured > 0 /\ main = "exited" => exit_status \in { <<s>> : s \in 1..255 }
    /\ StartupFailed /\ main \in {"wait", "forever"} =>
          ~Running /\ exit_status # <<0>>

\* the listeners are as ConnInit takes them
BothServing ==
    /\ main = "wait" /\ handlers /\ Running /\ redirect /\ hpc = <<>> /\ ensured = 1
    /\ \A l \in Listeners :
          lsn[l] = [thread |-> "serving", server |-> TRUE, sock |-> "listening",
                    tls |-> (l = "https"), shutdown_request |-> FALSE, is_shut_down |-> FALSE]

\* C27: on both listeners a connection that is being handled is worked on
\* by a thread of its own, never by the thread of serve_forever, and a
\* queued connection is always accepted in the end, whatever the other
\* connections of its listener do
C27_OwnThread ==
    /\ [](\A c \in Conns : conns[c].st = "handling" => conns[c].thread = "own")
    /\ \A d \in Conns : [](conns[d].st = "queued" => <>(conns[d].st # "queued"))

\* C29: a failure while one connection is worked on (a handshake or
\* protocol error, a handler that raises) ends that connection only: every
\* other connection is left as it was, both listeners stay as they were and
\* the process keeps running
C29_FailureIsLocal ==
    [][\A c \in Conns :
          conns[c].st # "failed" /\ conns'[c].st = "failed" =>
             /\ \A d \in Conns \ {c} : conns'[d] = conns[d]
             /\ lsn' = lsn
             /\ \A l \in Listeners : lsn'[l].thread = "serving"
             /\ Running']_vars
\* a handler raised on a connection, and a connection made later to the
\* same listener was served
C29_Witness ==
    /\ \E c, d \in Conns :
          /\ conns[c].st = "failed" /\ conns[c].kind = "badreq"
          /\ conns[d].st = "done" /\ conns[d].lsn = conns[c].lsn /\ d > c
    /\ \A l \in Listeners : lsn[l].thread = "serving"
    /\ Running

\* a probe of port succeeds on one of the addresses select_bind_port tries
ProbeSucceeds(port) ==
    \/ <<"0.0.0.0", port>> \in sel.free
    \/ \E i \in 1..Len(sel.ips) : <<sel.ips[i], port>> \in sel.free

C31_EnsureCertificate ==
    /\ [](Len(cert.openssl) <= 1)
    /\ [](cert.openssl = <<"failed">> =>
             /\ main = "exited" /\ exit_status = <<1>>
             /\ \A l \in Listeners : lsn[l].thread = "unborn")
    /\ [][ensured' # ensured =>
             /\ cert.crt # "absent" /\ cert.key # "absent" =>
                   cert' = cert /\ main' = "start" /\ Running'
             /\ cert'.openssl # cert.openssl =>
                   cert.crt = "absent" \/ cert.key = "absent"
             /\ cert.crt = "absent" \/ cert.key = "absent" =>
                   Len(cert'.openssl) = Len(cert.openssl) + 1]_vars
\* the certificate was missing, openssl wrote the key and failed, and the
\* process has exited
C31_Witness ==
    /\ cert = [crt |-> "absent", key |-> "valid", openssl |-> <<"failed">>]
    /\ ensured = 1 /\ main = "exited" /\ exit_status = <<1>>

\* C32: a listing of a directory in which another thread removes and
\* uploads files always ends, with the single status 200 and no exception;
\* the page shows every name that was there all the time, and beyond these
\* only names that were removed or uploaded meanwhile
C32_ListingCompletes ==
    /\ [](lst.pc # "none" => ~resp.exc /\ resp.status \in { <<>>, <<200>> })
    /\ [](lst.pc = "done" =>
             /\ resp.status = <<200>>
             /\ \E shown \in SUBSET (ListDir(fs_pre, ServeRoot) \cup lst.touched) :
                   /\ resp.listing = <<shown>>
                   /\ ListDir(fs_pre, ServeRoot) \ lst.touched \subseteq shown)
    /\ [](lst.pc = "size" => <>(lst.pc = "done"))
\* a listing has ended in which a removed file is shown and another one is
\* left out, with the file uploaded meanwhile shown
C32_Witness ==
    /\ lst.pc = "done"
    /\ resp.status = <<200>>
    /\ \E shown \in SUBSET (Victims \cup Newcomers \cup ListDir(fs_pre, ServeRoot)) :
          /\ resp.listing = <<shown>>
          /\ "a.bin" \in lst.touched /\ "a.bin" \in shown /\ ServeRoot \o <<"a.bin">> \notin DOMAIN fs
          /\ "x.dat" \in lst.touched /\ "x.dat" \notin shown
          /\ "new.bin" \in shown

\* the status lines the handler has sent include code
Sent(code) == \E i \in 1..Len(resp.status) : resp.status[i] = code

\* C33: when the handler of an authenticated GET or POST has ended it has
\* sent exactly one status line, and it has not failed after a 200
C33_OneResponse ==
    pc = "idle" /\ req.method \in {"GET", "POST"} /\ check_auth(req.auth) = "ok" =>
       /\ Len(resp.status) = 1
       /\ ~(Sent(200) /\ resp.exc)

\* the parser of the POST raised: 500 was sent, and not for a file that
\* could not be removed
ParserRaised == req.method = "POST" /\ Sent(500) /\ resp.named = <<>>

\* C34: files are removed only by the delete loop that follows a parse
\* without error; when the parser raised (500) every file that was there
\* when the request arrived is still there, and so is every file a file
\* part of the request has written
C34_DeleteAfterParse ==
    /\ [](pc = "idle" /\ ParserRaised =>
             /\ \A p \in DOMAIN fs_pre : p \in DOMAIN fs
             /\ \A i \in 1..Len(flog) : flog[i].path \in DOMAIN fs)
    /\ [][(\E p \in DOMAIN fs : p \notin DOMAIN fs') => pc = "apply" /\ ~Sent(500)]_vars
\* the parser raised on the third part, after a delete_files part naming
\* x.dat and a file part that wrote y.dat
C34_Witness ==
    /\ pc = "idle" /\ ParserRaised /\ resp.status = <<500>>
    /\ delete_files = <<DeleteName(<<"x.dat">>)>>
    /\ <<"srv", "x.dat">> \in DOMAIN fs_pre /\ fs[<<"srv", "x.dat">>] = <<"X">>
    /\ Len(flog) = 1 /\ flog[1].path = <<"srv", "y.dat">>
    /\ <<"srv", "y.dat">> \notin DOMAIN fs_pre /\ fs[<<"srv", "y.dat">>] = <<"B">>

\* the request being handled uploads content under the name and sends the
\* same name in a delete_files part, in one order or the other, and the
\* handler has ended with the success page
UploadsAndDeletes(name, content) ==
    /\ pc = "idle" /\ req.method = "POST" /\ resp.status = <<200>> /\ ~resp.exc
    /\ req.clen = <<Len(req.body)>>
    /\ \E pre \in { <<>>, <<"P", CR, LF>> } :
          req.body \in { Body(pre, <<FilePart(name, content), DeletePart(name)>>),
                         Body(pre, <<DeletePart(name), FilePart(name, content)>>) }

\* C35: when one POST uploads a file under a name and sends that name in
\* delete_files, the file is not in the target directory once the request
\* has been answered, whichever part came first
C35_UploadThenDelete ==
    \A name \in { <<"x.dat">>, <<" ", "x.dat">> }, content \in { <<"A">>, <<"A", "B", "C">> } :
       UploadsAndDeletes(name, content) =>
          UploadPath(req.path.fs, name).path \notin DOMAIN fs

====
